---------------------------- MODULE Spec2Model ----------------------------
(***************************************************************************)
(* Calendar Card Pro: the pointer-gesture state machine and the action     *)
(* dispatcher of src/src/utils/interaction.ts, and the cache fingerprint   *)
(* of the card class embedded in src/README.md.                            *)
(*                                                                         *)
(* JavaScript strings that the code inspects character by character        *)
(* (split, startsWith, join, JSON.stringify, btoa, substring) are          *)
(* sequences of one-character strings.  Strings that are only compared     *)
(* are TLA+ strings.  An optional property is None or Some(v).             *)
(***************************************************************************)
EXTENDS Integers, Sequences, FiniteSets, TLC

VARIABLES
    \* ---- action dispatcher, as a function of its arguments
    actIn,          \* the arguments of one handleAction call
    actOut,         \* its outcome, or Pending before the call
    \* ---- cache fingerprint of the card, as a function of its inputs
    keyIn,          \* two configurations, the instance id and today's date
    keyOut,         \* the getCacheKey value of each, or Pending
    \* ---- the days the card displays, as a function of its inputs
    viewIn,         \* configuration, Date.now() and the host's calendar
    viewOut,        \* the query window and the displayed days, or Pending
    \* ---- pointer gesture state machine (one setupInteractions closure)
    config,         \* config.tap_action, config.hold_action
    hass,           \* TRUE: a hass object was passed, FALSE: null
    hasContainer,   \* element.querySelector('.card-ripple-container') found
    state,          \* the closure's `state` variable (InteractionState)
    gestures,       \* one closure per handled pointerdown: ev, hasMoved, listeners
    holdLive,       \* hold timers set and neither fired nor cleared
    activeRipples,  \* the activeRipples array
    container,      \* children of the ripple container
    rippleTimer,    \* per ripple: the pending step of its fade-out chain
    indicators,     \* per hold indicator: absent, shown, fading, removed
    attached,       \* currentHandler is a pointerdown listener of the element
    navListening,   \* navigationListener is a location-changed listener
    navPending,     \* rebuild timeouts (250 ms) set and not yet run
    down,           \* pointers pressed on the element and not yet released
    \* ---- history variables, read by the properties only
    scn,            \* what has happened since the latest handled pointerdown
    row,            \* progress through a run of consecutive taps
    \* ---- the card: configuration, cache and fetch cycles
    card,           \* config, events, _hass, isLoading, what the card shows
    localStorage,   \* the items of localStorage, in key(i) order
    clock,          \* Date.now()
    cycles,         \* updateEvents activations awaiting a callApi response
    log,            \* history variable: the latest operation on the card
    \* ---- the logger module (logger-utils.ts)
    logger,         \* DEBUG_MODE, BANNER_SHOWN, CURRENT_LOG_LEVEL, debug flag
    console         \* the latest call, its console output; banners printed

actionVars == <<actIn, actOut>>
keyVars == <<keyIn, keyOut>>
viewVars == <<viewIn, viewOut>>
cardVars == <<card, localStorage, clock, cycles, log>>
loggerVars == <<logger, console>>
otherVars == <<actionVars, keyVars, viewVars, cardVars, loggerVars>>
gestureVars == <<config, hass, hasContainer, state, gestures, holdLive,
                 activeRipples, container, rippleTimer, indicators, attached,
                 navListening, navPending, down, scn, row>>
vars == <<actionVars, keyVars, viewVars, gestureVars, cardVars, loggerVars>>

---------------------------------------------------------------------------
(* JavaScript values *)

None == [has |-> FALSE]
Some(v) == [has |-> TRUE, v |-> v]

\* !x for an optional string property: undefined and '' are falsy
Falsy(o) == ~o.has \/ o.v = <<>>

\* the undefined value of a property that is only compared
Undef == "<undefined>"

\* !x for a compared string
FalsyStr(s) == s = Undef \/ s = ""

RECURSIVE SplitFrom(_, _, _)
\* String.prototype.split(sep) for a one-character separator:
\* cur is the part being read, s the rest of the string
SplitFrom(s, sep, cur) ==
    IF s = <<>> THEN <<cur>>
    ELSE IF Head(s) = sep THEN <<cur>> \o SplitFrom(Tail(s), sep, <<>>)
    ELSE SplitFrom(Tail(s), sep, Append(cur, Head(s)))

Split(s, sep) == SplitFrom(s, sep, <<>>)

\* String.prototype.startsWith
StartsWith(s, prefix) ==
    /\ Len(s) >= Len(prefix)
    /\ SubSeq(s, 1, Len(prefix)) = prefix

Str_http == <<"h", "t", "t", "p", ":", "/", "/">>
Str_https == <<"h", "t", "t", "p", "s", ":", "/", "/">>
Str_slash == <<"/">>

---------------------------------------------------------------------------
(* Action dispatcher: handleAction and the effects it runs.                *)
(* An outcome is the external effects produced, in order, the Logger       *)
(* calls made, and whether an exception left the function.  `throwing` is  *)
(* the set of host primitives that throw when called.                      *)

Outcome(effects, logs, raised) ==
    [effects |-> effects, logs |-> logs, raised |-> raised]

\* fireMoreInfo(element, entityId)
fireMoreInfo(entityId, throwing) ==
    IF FalsyStr(entityId) THEN Outcome(<<>>, <<"warn">>, FALSE)
    ELSE IF "dispatchEvent" \in throwing
         THEN Outcome(<<>>, <<"info", "error">>, FALSE)
         ELSE Outcome(<<[type |-> "hass-more-info", entityId |-> entityId]>>,
                      <<"info">>, FALSE)

\* handleNavigation(actionConfig)
handleNavigation(actionConfig, throwing) ==
    IF Falsy(actionConfig.navigation_path)
    THEN Outcome(<<>>, <<"warn">>, FALSE)
    ELSE LET push == [type |-> "pushState",
                      path |-> actionConfig.navigation_path.v]
             changed == [type |-> "location-changed"]
         IN IF "pushState" \in throwing
            THEN Outcome(<<>>, <<"info", "error">>, FALSE)
            ELSE IF "windowDispatch" \in throwing
                 THEN Outcome(<<push>>, <<"info", "error">>, FALSE)
                 ELSE Outcome(<<push, changed>>, <<"info">>, FALSE)

\* hass.callService(domain, service, actionConfig.service_data || {})
CallParts(serviceParts, actionConfig, throwing) ==
    IF Len(serviceParts) # 2 THEN Outcome(<<>>, <<"error">>, FALSE)
    ELSE IF "callService" \in throwing
         THEN Outcome(<<>>, <<"info", "error">>, FALSE)
         ELSE Outcome(<<[type |-> "call-service",
                         domain |-> serviceParts[1],
                         service |-> serviceParts[2],
                         serviceData |-> IF actionConfig.service_data.has
                                         THEN actionConfig.service_data.v
                                         ELSE "{}"]>>,
                      <<"info">>, FALSE)

\* callService(hass, actionConfig)
callService(actionConfig, throwing) ==
    IF Falsy(actionConfig.service)
    THEN Outcome(<<>>, <<"warn">>, FALSE)
    ELSE CallParts(Split(actionConfig.service.v, "."), actionConfig, throwing)

\* if (!url.startsWith('http://') && !url.startsWith('https://') &&
\*     !url.startsWith('/'))
SafeUrl(path) ==
    \/ StartsWith(path, Str_http)
    \/ StartsWith(path, Str_https)
    \/ StartsWith(path, Str_slash)

\* window.open(url, '_blank'), url and logs as the prefix check left them
OpenWindow(url, logs, throwing) ==
    IF "open" \in throwing
    THEN Outcome(<<>>, Append(logs, "error"), FALSE)
    ELSE Outcome(<<[type |-> "window.open", url |-> url,
                    target |-> "_blank"]>>, logs, FALSE)

\* openUrl(actionConfig)
openUrl(actionConfig, throwing) ==
    IF Falsy(actionConfig.url_path)
    THEN Outcome(<<>>, <<"warn">>, FALSE)
    ELSE IF SafeUrl(actionConfig.url_path.v)
         THEN OpenWindow(actionConfig.url_path.v, <<"info">>, throwing)
         ELSE OpenWindow(Str_https \o actionConfig.url_path.v,
                         <<"info", "warn">>, throwing)

\* the switch of handleAction, before its catch clause: the only call
\* outside an inner try block is toggleExpanded()
ActionSwitch(actionConfig, hassObj, entityId, throwing) ==
    CASE actionConfig.action = "more-info" ->
            fireMoreInfo(entityId, throwing)
      [] actionConfig.action = "navigate" ->
            handleNavigation(actionConfig, throwing)
      [] actionConfig.action = "call-service" ->
            IF hassObj THEN callService(actionConfig, throwing)
            ELSE Outcome(<<>>, <<"warn">>, FALSE)
      [] actionConfig.action = "url" ->
            openUrl(actionConfig, throwing)
      [] actionConfig.action = "expand" ->
            IF "toggleExpanded" \in throwing
            THEN Outcome(<<>>, <<>>, TRUE)
            ELSE Outcome(<<[type |-> "toggleExpanded"]>>, <<>>, FALSE)
      [] OTHER -> Outcome(<<>>, <<"warn">>, FALSE)

\* !actionConfig || !actionConfig.action || actionConfig.action === 'none'
NoAction(actionConfig) ==
    \/ actionConfig.kind = "undefined"
    \/ FalsyStr(actionConfig.action)
    \/ actionConfig.action = "none"

\* the body of the try block: Logger.info, then the switch
TryBlock(r) == Outcome(r.effects, <<"info">> \o r.logs, r.raised)

\* catch (error) { Logger.error(...) }
CatchClause(r) ==
    IF r.raised THEN Outcome(r.effects, Append(r.logs, "error"), FALSE)
    ELSE r

\* handleAction without its catch clause: an exception of the switch
\* leaves the function
handleAction_NoCatch(actionConfig, hassObj, entityId, throwing) ==
    IF NoAction(actionConfig) THEN Outcome(<<>>, <<"debug">>, FALSE)
    ELSE TryBlock(ActionSwitch(actionConfig, hassObj, entityId, throwing))

\* handleAction with the field checks of the effects dropped: every typed
\* action runs its effect
handleAction_NoValidation(actionConfig, hassObj, entityId, throwing) ==
    IF actionConfig.kind = "undefined" THEN Outcome(<<>>, <<"debug">>, FALSE)
    ELSE Outcome(<<[type |-> actionConfig.action]>>, <<"info">>, FALSE)

\* handleAction(actionConfig, hass, element, entityId, toggleExpanded)
handleAction(actionConfig, hassObj, entityId, throwing) ==
    IF NoAction(actionConfig) THEN Outcome(<<>>, <<"debug">>, FALSE)
    ELSE CatchClause(
             TryBlock(ActionSwitch(actionConfig, hassObj, entityId, throwing)))

---------------------------------------------------------------------------
(* Pointer gesture state machine: setupInteractions.                       *)
(*                                                                         *)
(* Gestures, hold timers, ripples and hold indicators are numbered by the  *)
(* pointerdown that created them: gesture g owns the closure variables of  *)
(* the g-th call of pointerDownHandler, hold timer g, ripple g and         *)
(* indicator g.  Timers are untimed: a pending timeout may run at any      *)
(* later step.                                                             *)

\* handled pointerdown events per run
MaxGestures == 2
\* rebuild timeouts that may be pending together
MaxNavPending == 1
\* if (distance > 10)
MoveThreshold == 10

Pointers == {1, 2}
\* clientX, clientY of pointerdown events and of pointermove events
DownPoints == {<<3, 0>>}
MovePoints == {<<9, 8>>, <<14, 0>>}

\* the primitives of the host that handleAction's effects call
HostPrimitives == {"dispatchEvent", "pushState", "windowDispatch",
                   "callService", "open", "toggleExpanded"}

UndefinedAction == [kind |-> "undefined"]
ActionObject(action, navigation_path, service, service_data, url_path) ==
    [kind |-> "object", action |-> action,
     navigation_path |-> navigation_path, service |-> service,
     service_data |-> service_data, url_path |-> url_path]
SimpleAction(action) == ActionObject(action, None, None, None, None)
NavigateAction == ActionObject("navigate", Some(<<"/", "c">>), None, None, None)

GestureConfig(tap, hold) == [tap_action |-> tap, hold_action |-> hold]

\* one well-formed descriptor per action type
TypedActions ==
    {SimpleAction("more-info"),
     NavigateAction,
     ActionObject("call-service", None, Some(<<"a", ".", "b">>), None, None),
     ActionObject("url", None, None, None, Some(<<"/", "u">>)),
     SimpleAction("expand")}

\* the configurations the gesture machine is run with
GestureConfigs ==
    {GestureConfig(NavigateAction, SimpleAction("more-info")),
     GestureConfig(SimpleAction("expand"), UndefinedAction),
     GestureConfig(UndefinedAction, SimpleAction("none"))}

\* the entityId argument of setupInteractions
entityId == "calendar.family"

\* config.x && config.x.action !== 'none'
Configured(actionConfig) ==
    /\ actionConfig.kind # "undefined"
    /\ actionConfig.action # "none"

\* setupInteractions goes past its two early returns
IsSetUp(cfg, hc) ==
    /\ Configured(cfg.tap_action) \/ Configured(cfg.hold_action)
    /\ hc

\* createFreshState()
createFreshState ==
    [instanceId |-> "interaction_1", holdTimer |-> None,
     holdTriggered |-> FALSE, holdIndicator |-> None,
     activePointerId |-> None, lastActionTime |-> 0,
     pendingHoldAction |-> FALSE]

\* the mutable parts a handler works on, and what it has dispatched
Machine ==
    [state |-> state, gestures |-> gestures, holdLive |-> holdLive,
     activeRipples |-> activeRipples, container |-> container,
     rippleTimer |-> rippleTimer, indicators |-> indicators,
     navPending |-> navPending, dispatched |-> <<>>, threw |-> FALSE,
     raised |-> FALSE]

\* Date.now(): a logical clock, the number of pointerdowns handled so far
Now(m) == Len(m.gestures)

\* a clearing that forgets the timer id and leaves the timeout running
ClearHoldTimer_Forget(m) == [m EXCEPT !.state.holdTimer = None]

\* if (state.holdTimer !== null) { clearTimeout(state.holdTimer);
\*   state.holdTimer = null; }
ClearHoldTimer(m) ==
    IF m.state.holdTimer.has
    THEN [m EXCEPT !.holdLive = @ \ {m.state.holdTimer.v},
                   !.state.holdTimer = None]
    ELSE m

\* Array.prototype.indexOf(x) !== -1
InArray(arr, x) == \E i \in 1..Len(arr) : arr[i] = x

\* Array.prototype.splice(indexOf(x), 1)
Splice(arr, x) == SelectSeq(arr, LAMBDA y : y # x)

\* removeRippleEffect(ripple, delay): its two timeouts, the delay and the
\* 300 ms fade-out that ends with removeChild, are one pending removal
removeRippleEffect(m, r) ==
    IF r \notin m.container THEN m
    ELSE [m EXCEPT !.rippleTimer[r] = "fade"]

\* removeHoldIndicator(indicator)
removeHoldIndicator(m, i) ==
    IF m.indicators[i] \notin {"shown", "fading"} THEN m
    ELSE [m EXCEPT !.indicators[i] = "fading"]

\* if (state.holdIndicator && state.holdIndicator.parentNode) {
\*   removeHoldIndicator(state.holdIndicator); state.holdIndicator = null; }
CleanUpHoldIndicator(m) ==
    IF /\ m.state.holdIndicator.has
       /\ m.indicators[m.state.holdIndicator.v] \in {"shown", "fading"}
    THEN [removeHoldIndicator(m, m.state.holdIndicator.v)
            EXCEPT !.state.holdIndicator = None]
    ELSE m

\* the handler after handleAction returned r: state.lastActionTime =
\* Date.now(), skipped if r is an exception; a 'location-changed' event in
\* r.effects has run navigationListener, which set a rebuild timeout
Dispatched(m, kind, r, throwing) ==
    [m EXCEPT !.dispatched = Append(@, kind),
              !.navPending =
                  IF /\ navListening
                     /\ InArray(r.effects, [type |-> "location-changed"])
                  THEN @ + 1 ELSE @,
              !.threw = throwing # {} /\ InArray(r.logs, "error"),
              !.raised = r.raised,
              !.state.lastActionTime = IF r.raised THEN @ ELSE Now(m)]

\* handleAction(actionConfig, hass, element, entityId, toggleCallback)
\* called from handlePointerUp
Dispatch(m, kind, actionConfig, throwing) ==
    Dispatched(m, kind, handleAction(actionConfig, hass, entityId, throwing),
               throwing)

\* a move listener that tracks nothing
handlePointerMove_Ignore(m, g, x, y) == m

\* handlePointerMove of gesture g
handlePointerMove(m, g, x, y) ==
    LET ev == m.gestures[g]
        dx == x - ev.startX
        dy == y - ev.startY
    IN IF m.state.activePointerId # Some(ev.pointerId) THEN m
       ELSE IF dx * dx + dy * dy > MoveThreshold * MoveThreshold
            THEN ClearHoldTimer([m EXCEPT !.gestures[g].hasMoved = TRUE])
            ELSE m

\* state.pendingHoldAction = false after the hold action has returned
HoldDone(m) ==
    IF m.raised THEN m ELSE [m EXCEPT !.state.pendingHoldAction = FALSE]

\* the action branch with the tap action left out
ExecuteAction_NoTap(m, g, throwing) ==
    IF m.state.pendingHoldAction /\ ~m.gestures[g].hasMoved
    THEN HoldDone(IF Configured(config.hold_action)
                  THEN Dispatch(m, "hold", config.hold_action, throwing)
                  ELSE m)
    ELSE m

\* the branch of handlePointerUp that picks and runs the action
ExecuteAction(m, g, throwing) ==
    IF m.state.pendingHoldAction /\ ~m.gestures[g].hasMoved
    THEN HoldDone(IF Configured(config.hold_action)
                  THEN Dispatch(m, "hold", config.hold_action, throwing)
                  ELSE m)
    ELSE IF /\ ~m.state.holdTriggered
            /\ ~m.gestures[g].hasMoved
            /\ Configured(config.tap_action)
         THEN Dispatch(m, "tap", config.tap_action, throwing)
         ELSE m

\* the flags and listeners handlePointerUp resets after the action
UpReset(m, g) ==
    [m EXCEPT !.state.holdTriggered = FALSE,
              !.state.pendingHoldAction = FALSE,
              !.rippleTimer[g] = "upDelay",
              !.gestures[g].upL = FALSE,
              !.gestures[g].cancelL = FALSE]

\* what handlePointerUp does after the action: an exception that left
\* handleAction would end the handler before it
UpCleanup(m, g) ==
    IF m.raised THEN m ELSE UpReset(CleanUpHoldIndicator(m), g)

\* handlePointerUp once the pointer was found active
UpActive(m, g, throwing) ==
    UpCleanup(ExecuteAction([m EXCEPT !.state.activePointerId = None],
                            g, throwing), g)

\* an up listener that runs for every pointerup, whatever pointer is active
UpCheck_AnyPointer(m, g, throwing) ==
    UpActive(ClearHoldTimer(m), g, throwing)

\* handlePointerUp up to its pointer check
UpCheck(m, g, throwing) ==
    IF m.state.activePointerId # Some(m.gestures[g].pointerId) THEN m
    ELSE UpActive(ClearHoldTimer(m), g, throwing)

\* handlePointerUp of gesture g, a { once: true } listener
handlePointerUp(m, g, throwing) ==
    UpCheck([m EXCEPT !.gestures[g].upL = FALSE,
                      !.gestures[g].moveL = FALSE], g, throwing)

\* activeRipples.indexOf(ripple) !== -1: removeRippleEffect and splice
DropRipple(m, g) ==
    IF InArray(m.activeRipples, g)
    THEN [removeRippleEffect(m, g) EXCEPT !.activeRipples = Splice(@, g)]
    ELSE m

\* the flags handlePointerCancel resets
CancelReset(m) ==
    [m EXCEPT !.state.activePointerId = None,
              !.state.holdTriggered = FALSE,
              !.state.pendingHoldAction = FALSE]

\* a cancel listener that only removes the listeners
handlePointerCancel_ListenersOnly(m, g) ==
    [m EXCEPT !.gestures[g].cancelL = FALSE,
              !.gestures[g].moveL = FALSE,
              !.gestures[g].upL = FALSE]

\* handlePointerCancel of gesture g, a { once: true } listener
handlePointerCancel(m, g) ==
    [DropRipple(CleanUpHoldIndicator(CancelReset(ClearHoldTimer(m))), g)
        EXCEPT !.gestures[g].cancelL = FALSE,
               !.gestures[g].moveL = FALSE,
               !.gestures[g].upL = FALSE]

RECURSIVE RunMoveListeners(_, _, _, _)
\* a pointermove event at window: the move listeners in registration order
RunMoveListeners(m, g, x, y) ==
    IF g > Len(m.gestures) THEN m
    ELSE RunMoveListeners(
             IF m.gestures[g].moveL THEN handlePointerMove(m, g, x, y) ELSE m,
             g + 1, x, y)

RECURSIVE RunUpListeners(_, _, _)
\* a pointerup event at window: the up listeners in registration order
RunUpListeners(m, g, throwing) ==
    IF g > Len(m.gestures) THEN m
    ELSE RunUpListeners(
             IF m.gestures[g].upL THEN handlePointerUp(m, g, throwing) ELSE m,
             g + 1, throwing)

RECURSIVE RunCancelListeners(_, _)
\* a pointercancel event at window: the cancel listeners in registration order
RunCancelListeners(m, g) ==
    IF g > Len(m.gestures) THEN m
    ELSE RunCancelListeners(
             IF m.gestures[g].cancelL THEN handlePointerCancel(m, g) ELSE m,
             g + 1)

\* state.holdTimer = window.setTimeout(...), after clearing the old one
StartHoldTimer(m, g) ==
    [m EXCEPT !.holdLive = @ \cup {g}, !.state.holdTimer = Some(g)]

\* the closure and the listeners of gesture g
NewGesture(m, p, x, y) ==
    [m EXCEPT !.gestures = Append(@,
        [pointerId |-> p, startX |-> x, startY |-> y, hasMoved |-> FALSE,
         moveL |-> TRUE, upL |-> TRUE, cancelL |-> TRUE])]

\* the flags, the pointer id and the ripple of gesture g
DownState(m, p, g) ==
    [m EXCEPT !.state.holdTriggered = FALSE,
              !.state.pendingHoldAction = FALSE,
              !.state.activePointerId = Some(p),
              !.container = @ \cup {g},
              !.activeRipples = Append(@, g),
              !.rippleTimer = Append(@, "none"),
              !.indicators = Append(@, "absent")]

\* a pointerDownHandler that starts the hold timer whatever is configured
DownGesture_AlwaysTimer(m, p, x, y, g) ==
    NewGesture(StartHoldTimer(ClearHoldTimer(DownState(m, p, g)), g),
               p, x, y)

\* pointerDownHandler(ev) creating gesture g
DownGesture(m, p, x, y, g) ==
    IF Configured(config.hold_action)
    THEN NewGesture(StartHoldTimer(ClearHoldTimer(DownState(m, p, g)), g),
                    p, x, y)
    ELSE NewGesture(DownState(m, p, g), p, x, y)

\* pointerDownHandler(ev)
pointerDownHandler(m, p, x, y) == DownGesture(m, p, x, y, Len(m.gestures) + 1)

\* the hold timer callback once the pointer was found active
HoldArmed(m, g) ==
    [m EXCEPT !.state.holdTriggered = TRUE,
              !.state.pendingHoldAction = TRUE,
              !.state.holdIndicator = Some(g),
              !.indicators[g] = "shown"]

\* the pointer check of the hold timer callback
HoldCheck(m, g) ==
    IF m.state.activePointerId = Some(m.gestures[g].pointerId)
    THEN HoldArmed(m, g) ELSE m

\* a hold timer callback that runs the hold action itself
holdTimerCallback_Execute(m, g) ==
    Dispatch(HoldCheck([m EXCEPT !.holdLive = @ \ {g}], g), "hold",
             config.hold_action, {})

\* a hold timer callback that marks nothing
holdTimerCallback_NoArm(m, g) == [m EXCEPT !.holdLive = @ \ {g}]

\* the hold timer callback of gesture g
holdTimerCallback(m, g) == HoldCheck([m EXCEPT !.holdLive = @ \ {g}], g)

\* if (state.holdIndicator && state.holdIndicator.parentNode)
\*   state.holdIndicator.parentNode.removeChild(state.holdIndicator)
RemoveIndicatorNow(m) ==
    IF /\ m.state.holdIndicator.has
       /\ m.indicators[m.state.holdIndicator.v] \in {"shown", "fading"}
    THEN [m EXCEPT !.indicators[m.state.holdIndicator.v] = "removed",
                   !.state.holdIndicator = None]
    ELSE m

\* a reset that keeps the state object
resetInteractions_KeepState(m) ==
    [ClearHoldTimer(m) EXCEPT !.container = {}, !.activeRipples = <<>>]

\* resetInteractions()
resetInteractions(m) ==
    [RemoveIndicatorNow(ClearHoldTimer(m))
        EXCEPT !.container = {}, !.activeRipples = <<>>,
               !.state = createFreshState]

\* the variables a handler works on take the values of m
Commit(m) ==
    /\ state' = m.state
    /\ gestures' = m.gestures
    /\ holdLive' = m.holdLive
    /\ activeRipples' = m.activeRipples
    /\ container' = m.container
    /\ rippleTimer' = m.rippleTimer
    /\ indicators' = m.indicators
    /\ navPending' = m.navPending

---------------------------------------------------------------------------
(* Cache fingerprint of the card class: setConfig and getCacheKey.         *)
(* Of the keys of DEFAULT_CONFIG the configuration keeps those the          *)
(* fingerprint names and update_interval, in their order; strings are      *)
(* sequences of characters.                                                *)

\* the printable ASCII characters, in the order of their codes 32 to 126
\* ("grave" stands in for the grave accent, code 96)
Ascii ==
    <<" ", "!", "\"", "#", "$", "%", "&", "'", "(", ")", "*", "+", ",",
      "-", ".", "/", "0", "1", "2", "3", "4", "5", "6", "7", "8", "9", ":",
      ";", "<", "=", ">", "?", "@", "A", "B", "C", "D", "E", "F", "G", "H",
      "I", "J", "K", "L", "M", "N", "O", "P", "Q", "R", "S", "T", "U", "V",
      "W", "X", "Y", "Z", "[", "\\", "]", "^", "_", "grave", "a", "b", "c",
      "d", "e", "f", "g", "h", "i", "j", "k", "l", "m", "n", "o", "p", "q",
      "r", "s", "t", "u", "v", "w", "x", "y", "z", "{", "|", "}", "~">>

\* String.prototype.charCodeAt for those characters
CharCode ==
    [c \in {Ascii[i] : i \in 1..Len(Ascii)} |->
        31 + CHOOSE i \in 1..Len(Ascii) : Ascii[i] = c]

\* the alphabet of btoa
Base64 ==
    <<"A", "B", "C", "D", "E", "F", "G", "H", "I", "J", "K", "L", "M", "N",
      "O", "P", "Q", "R", "S", "T", "U", "V", "W", "X", "Y", "Z", "a", "b",
      "c", "d", "e", "f", "g", "h", "i", "j", "k", "l", "m", "n", "o", "p",
      "q", "r", "s", "t", "u", "v", "w", "x", "y", "z", "0", "1", "2", "3",
      "4", "5", "6", "7", "8", "9", "+", "/">>

\* the four characters btoa makes of three bytes
Quad(b1, b2, b3) ==
    <<Base64[(b1 \div 4) + 1],
      Base64[((b1 % 4) * 16 + (b2 \div 16)) + 1],
      Base64[((b2 % 16) * 4 + (b3 \div 64)) + 1],
      Base64[(b3 % 64) + 1]>>

RECURSIVE btoa(_)
\* btoa(s), with its padding
btoa(s) ==
    IF Len(s) = 0 THEN <<>>
    ELSE IF Len(s) = 1
         THEN SubSeq(Quad(CharCode[s[1]], 0, 0), 1, 2) \o <<"=", "=">>
    ELSE IF Len(s) = 2
         THEN SubSeq(Quad(CharCode[s[1]], CharCode[s[2]], 0), 1, 3) \o <<"=">>
    ELSE Quad(CharCode[s[1]], CharCode[s[2]], CharCode[s[3]])
             \o btoa(SubSeq(s, 4, Len(s)))

\* String.prototype.substring(0, n)
Substring0(s, n) == SubSeq(s, 1, IF n < Len(s) THEN n ELSE Len(s))

RECURSIVE NumberToString(_)
\* String(n) of a natural number
NumberToString(n) ==
    IF n < 10 THEN <<Ascii[17 + n]>>
    ELSE NumberToString(n \div 10) \o <<Ascii[17 + (n % 10)]>>

Str_true ==
    <<"t", "r", "u", "e">>
Str_false ==
    <<"f", "a", "l", "s", "e">>

\* String(b) of a boolean
BooleanToString(b) == IF b THEN Str_true ELSE Str_false

\* String(o) of a plain object
Str_objectObject ==
    <<"[", "o", "b", "j", "e", "c", "t", " ", "O", "b", "j", "e", "c", "t",
      "]">>

RECURSIVE ArrayJoin(_, _)
\* Array.prototype.join(sep) of an array of strings
ArrayJoin(strs, sep) ==
    IF Len(strs) = 0 THEN <<>>
    ELSE IF Len(strs) = 1 THEN strs[1]
    ELSE strs[1] \o sep \o ArrayJoin(Tail(strs), sep)

\* 'var(--primary-text-color)'
Str_defaultColor ==
    <<"v", "a", "r", "(", "-", "-", "p", "r", "i", "m", "a", "r", "y", "-",
      "t", "e", "x", "t", "-", "c", "o", "l", "o", "r", ")">>

\* an entry of the user's entities list: a string, an object with optional
\* entity and color, or something else
StringItem(v) == [type |-> "string", v |-> v]
ObjectItem(entity, color) ==
    [type |-> "object", entity |-> entity, color |-> color]
OtherItem == [type |-> "number"]

\* item => { entity, color } or null
NormalizeItem(item) ==
    IF item.type = "string"
    THEN Some([entity |-> item.v, color |-> Str_defaultColor])
    ELSE IF item.type = "object" /\ ~Falsy(item.entity)
         THEN Some([entity |-> item.entity.v,
                    color |-> IF Falsy(item.color) THEN Str_defaultColor
                              ELSE item.color.v])
         ELSE None

RECURSIVE MapFilter(_)
\* entities.map(...).filter(Boolean)
MapFilter(items) ==
    IF items = <<>> THEN <<>>
    ELSE IF NormalizeItem(Head(items)).has
         THEN <<NormalizeItem(Head(items)).v>> \o MapFilter(Tail(items))
         ELSE MapFilter(Tail(items))

\* normalizeEntities(entities)
normalizeEntities(entities) ==
    IF ~entities.isArray THEN <<>> ELSE MapFilter(entities.items)

\* CalendarCardPro.DEFAULT_CONFIG
DEFAULT_CONFIG ==
    [entities |-> [isArray |-> TRUE, items |-> <<>>],
     days_to_show |-> 3,
     update_interval |-> 43200,
     show_past_events |-> FALSE]

\* { ...CalendarCardPro.DEFAULT_CONFIG, ...config }
Spread(defaults, userConfig) ==
    [k \in DOMAIN defaults |->
        IF k \in DOMAIN userConfig /\ userConfig[k].has
        THEN userConfig[k].v ELSE defaults[k]]

\* this.config.entities = this.normalizeEntities(this.config.entities)
WithNormalized(merged) ==
    [merged EXCEPT !.entities = normalizeEntities(merged.entities)]

\* this.config after setConfig(config)
setConfig(userConfig) == WithNormalized(Spread(DEFAULT_CONFIG, userConfig))

\* JSON.stringify of a string without characters to escape
JsonString(str) == <<"\"">> \o str \o <<"\"">>

Json_entity ==
    <<"{", "\"", "e", "n", "t", "i", "t", "y", "\"", ":">>
Json_color ==
    <<",", "\"", "c", "o", "l", "o", "r", "\"", ":">>

\* JSON.stringify of a normalized entity
JsonEntity(e) ==
    Json_entity \o JsonString(e.entity) \o Json_color \o JsonString(e.color)
        \o <<"}">>

Json_entities ==
    <<"{", "\"", "e", "n", "t", "i", "t", "i", "e", "s", "\"", ":", "[">>
Json_days ==
    <<"]", ",", "\"", "d", "a", "y", "s", "_", "t", "o", "_", "s", "h",
      "o", "w", "\"", ":">>
Json_interval ==
    <<",", "\"", "u", "p", "d", "a", "t", "e", "_", "i", "n", "t", "e",
      "r", "v", "a", "l", "\"", ":">>
Json_past ==
    <<",", "\"", "s", "h", "o", "w", "_", "p", "a", "s", "t", "_", "e",
      "v", "e", "n", "t", "s", "\"", ":">>

\* JSON.stringify(config): the keys in the order of DEFAULT_CONFIG
JsonStringify(cfg) ==
    Json_entities
        \o ArrayJoin([i \in 1..Len(cfg.entities) |->
                         JsonEntity(cfg.entities[i])], <<",">>)
        \o Json_days \o NumberToString(cfg.days_to_show)
        \o Json_interval \o NumberToString(cfg.update_interval)
        \o Json_past \o BooleanToString(cfg.show_past_events)
        \o <<"}">>

\* hashConfig(config)
hashConfig(cfg) == Substring0(btoa(JsonStringify(cfg)), 8)

Str_calendar_ ==
    <<"c", "a", "l", "e", "n", "d", "a", "r", "_">>

\* getBaseCacheKey()
getBaseCacheKey(cfg, instanceId) ==
    Str_calendar_ \o instanceId \o <<"_">>
        \o ArrayJoin([i \in 1..Len(cfg.entities) |-> Str_objectObject],
                     <<"_">>)
        \o <<"_">> \o NumberToString(cfg.days_to_show)
        \o <<"_">> \o BooleanToString(cfg.show_past_events)
        \o <<"_">> \o hashConfig(cfg)

WeekdayNames ==
    <<<<"S", "u", "n">>, <<"M", "o", "n">>, <<"T", "u", "e">>,
      <<"W", "e", "d">>, <<"T", "h", "u">>, <<"F", "r", "i">>,
      <<"S", "a", "t">>>>
MonthNames ==
    <<<<"J", "a", "n">>, <<"F", "e", "b">>, <<"M", "a", "r">>,
      <<"A", "p", "r">>, <<"M", "a", "y">>, <<"J", "u", "n">>,
      <<"J", "u", "l">>, <<"A", "u", "g">>, <<"S", "e", "p">>,
      <<"O", "c", "t">>, <<"N", "o", "v">>, <<"D", "e", "c">>>>

\* Date.prototype.toDateString of a local date: getDay(), getMonth(),
\* getDate(), getFullYear()
toDateString(d) ==
    WeekdayNames[d.day + 1] \o <<" ">> \o MonthNames[d.month + 1] \o <<" ">>
        \o (IF d.date < 10 THEN <<"0">> ELSE <<>>) \o NumberToString(d.date)
        \o <<" ">> \o NumberToString(d.year)

\* getCacheKey() without the date suffix
getCacheKey_NoDay(cfg, instanceId, today) == getBaseCacheKey(cfg, instanceId)

\* getCacheKey(), new Date() being `today`
getCacheKey(cfg, instanceId, today) ==
    getBaseCacheKey(cfg, instanceId) \o <<"_">> \o toDateString(today)

---------------------------------------------------------------------------
(* History variables.                                                      *)
(* scn describes the latest gesture, from its pointerdown (the latest      *)
(* handled one) on.  owner is its pointer (0 before the first gesture).    *)
(* Up to the first pointerup or pointercancel of the owner: fired, its     *)
(* hold timer callback has run; moved, how far its pointer has moved from  *)
(* the origin: "no" move, "near" (within MoveThreshold) or "far" (beyond   *)
(* it, whatever followed); navAfterFire, a location-changed event   *)
(* has arrived after the timer fired; reset, resetInteractions has run (a  *)
(* rebuild or the cleanup function).  ended tells how the owner's pointer  *)
(* went away.  dispatched lists the actions dispatched since the           *)
(* pointerdown; threw: an effect of one of them threw; raised: the         *)
(* exception left handleAction.  intruded: an event of another pointer has *)
(* happened before the owner's pointer went away; the record then keeps    *)
(* what that first event dispatched and is no longer updated.              *)

ScnNew(p) ==
    [owner |-> p, fired |-> FALSE, moved |-> "no", intruded |-> FALSE,
     navAfterFire |-> FALSE, reset |-> FALSE, ended |-> "no",
     dispatched |-> <<>>, threw |-> FALSE, raised |-> FALSE]

ScnOpen == scn.owner # 0 /\ scn.ended = "no" /\ ~scn.intruded

\* the event is one of the latest gesture's own pointer, before its end
Own(p) == ScnOpen /\ p = scn.owner

\* the pointer is further than the threshold from the latest gesture's origin
Far(x, y) ==
    /\ gestures # <<>>
    /\ LET ev == gestures[Len(gestures)]
           dx == x - ev.startX
           dy == y - ev.startY
       IN dx * dx + dy * dy > MoveThreshold * MoveThreshold

\* scn after the first event of another pointer, whose handlers left m
ScnIntruded(m) ==
    [ScnNew(scn.owner) EXCEPT !.intruded = TRUE,
                              !.dispatched = m.dispatched,
                              !.threw = m.threw,
                              !.raised = m.raised]

\* scn after a pointerup or pointercancel (`how`) of pointer p, whose
\* handlers left m
ScnPointer(p, how, m) ==
    IF scn.owner = 0 \/ scn.intruded THEN scn
    ELSE IF scn.ended = "no" /\ p # scn.owner THEN ScnIntruded(m)
    ELSE [scn EXCEPT !.ended = IF @ = "no" THEN how ELSE @,
                     !.dispatched = @ \o m.dispatched,
                     !.threw = @ \/ m.threw,
                     !.raised = @ \/ m.raised]

RowNone == [stage |-> "none", taps |-> 0, holds |-> 0]

Count(seq, x) == Len(SelectSeq(seq, LAMBDA y : y = x))

\* row after a handled pointerdown: the first tap starts with no pointer
\* pressed and no rebuild pending, the second follows the first
RowDown ==
    IF row.stage = "u1" THEN [row EXCEPT !.stage = "d2"]
    ELSE IF down = {} /\ navPending = 0
         THEN [stage |-> "d1", taps |-> 0, holds |-> 0]
         ELSE RowNone

\* row after a pointerup of pointer p that dispatched d
RowUp(p, d) ==
    IF row.stage \in {"d1", "d2"} /\ Own(p) /\ ~scn.fired /\ scn.moved # "far"
    THEN [stage |-> IF row.stage = "d1" THEN "u1" ELSE "u2",
          taps |-> row.taps + Count(d, "tap"),
          holds |-> row.holds + Count(d, "hold")]
    ELSE RowNone

\* row after a pointermove
RowMove(p, x, y) ==
    IF row.stage = "none" THEN RowNone
    ELSE IF p # scn.owner THEN RowNone
    ELSE IF ScnOpen /\ Far(x, y) THEN RowNone
    ELSE row

---------------------------------------------------------------------------
(* Events *)

\* pointerdown of pointer p on the element, currentHandler attached
PointerDownOnElement(p, pt) ==
    /\ attached
    /\ p \notin down
    /\ Len(gestures) < MaxGestures
    /\ Commit(pointerDownHandler(Machine, p, pt[1], pt[2]))
    /\ down' = down \cup {p}
    /\ scn' = ScnNew(p)
    /\ row' = RowDown
    /\ UNCHANGED <<config, hass, hasContainer, attached, navListening,
                   otherVars>>

\* a pointermove event of pointer p reaches window
PointerMove(p, pt) ==
    LET m == RunMoveListeners(Machine, 1, pt[1], pt[2])
    IN /\ Commit(m)
       /\ scn' = IF ~ScnOpen THEN scn
                 ELSE IF p # scn.owner THEN ScnIntruded(m)
                 ELSE IF Far(pt[1], pt[2]) THEN [scn EXCEPT !.moved = "far"]
                 ELSE IF scn.moved = "no" THEN [scn EXCEPT !.moved = "near"]
                 ELSE scn
       /\ row' = RowMove(p, pt[1], pt[2])
       /\ UNCHANGED <<config, hass, hasContainer, attached, navListening,
                      down, otherVars>>

\* a pointerup event of pointer p reaches window; a pointer that is not in
\* `down` was pressed outside the element
PointerUp(p, throwing) ==
    LET m == RunUpListeners(Machine, 1, throwing)
    IN /\ m.navPending <= MaxNavPending
       /\ Commit(m)
       /\ down' = down \ {p}
       /\ scn' = ScnPointer(p, "up", m)
       /\ row' = RowUp(p, m.dispatched)
       /\ UNCHANGED <<config, hass, hasContainer, attached, navListening,
                      otherVars>>

\* a pointercancel event of pointer p reaches window
PointerCancel(p) ==
    LET m == RunCancelListeners(Machine, 1)
    IN /\ Commit(m)
       /\ down' = down \ {p}
       /\ scn' = ScnPointer(p, "cancel", m)
       /\ row' = RowNone
       /\ UNCHANGED <<config, hass, hasContainer, attached, navListening,
                      otherVars>>

\* the 500 ms hold timeout of gesture g runs
HoldTimerFire(g) ==
    /\ g \in holdLive
    /\ Commit(holdTimerCallback(Machine, g))
    /\ scn' = IF ScnOpen /\ g = Len(gestures)
              THEN [scn EXCEPT !.fired = TRUE] ELSE scn
    /\ row' = RowNone
    /\ UNCHANGED <<config, hass, hasContainer, attached, navListening,
                   down, otherVars>>

\* the 100 ms timeout set by handlePointerUp for ripple g runs
RippleUpDelay(g) ==
    /\ g \in 1..Len(rippleTimer)
    /\ rippleTimer[g] = "upDelay"
    /\ LET m0 == [Machine EXCEPT !.rippleTimer[g] = "none"]
           m == IF InArray(m0.activeRipples, g)
                THEN [removeRippleEffect(m0, g)
                        EXCEPT !.activeRipples = Splice(@, g)]
                ELSE m0
       IN Commit(m)
    /\ UNCHANGED <<config, hass, hasContainer, attached, navListening,
                   down, scn, row, otherVars>>

\* the last timeout of removeRippleEffect runs: if (ripple.parentNode)
\* ripple.parentNode.removeChild(ripple)
RippleRemove(g) ==
    /\ g \in 1..Len(rippleTimer)
    /\ rippleTimer[g] = "fade"
    /\ rippleTimer' = [rippleTimer EXCEPT ![g] = "none"]
    /\ container' = container \ {g}
    /\ UNCHANGED <<config, hass, hasContainer, state, gestures, holdLive,
                   activeRipples, indicators, attached, navListening,
                   navPending, down, scn, row, otherVars>>

\* the 300 ms timeout of removeHoldIndicator runs
IndicatorRemove(g) ==
    /\ g \in 1..Len(indicators)
    /\ indicators[g] = "fading"
    /\ indicators' = [indicators EXCEPT ![g] = "removed"]
    /\ UNCHANGED <<config, hass, hasContainer, state, gestures, holdLive,
                   activeRipples, container, rippleTimer, attached,
                   navListening, navPending, down, scn, row,
                   otherVars>>

\* a 'location-changed' event raised outside this setup reaches window
Navigate ==
    /\ navListening
    /\ navPending < MaxNavPending
    /\ navPending' = navPending + 1
    /\ scn' = IF ScnOpen /\ scn.fired
              THEN [scn EXCEPT !.navAfterFire = TRUE] ELSE scn
    /\ row' = RowNone
    /\ UNCHANGED <<config, hass, hasContainer, state, gestures, holdLive,
                   activeRipples, container, rippleTimer, indicators, attached,
                   navListening, down, otherVars>>

\* the 250 ms timeout of navigationListener runs; isConnected is
\* element.isConnected at that moment
NavRebuild(isConnected) ==
    /\ navPending > 0
    /\ IF isConnected
       THEN /\ Commit([resetInteractions(Machine)
                         EXCEPT !.navPending = @ - 1])
            /\ attached' = TRUE
            /\ scn' = IF ScnOpen THEN [scn EXCEPT !.reset = TRUE] ELSE scn
       ELSE /\ navPending' = navPending - 1
            /\ UNCHANGED <<state, gestures, holdLive, activeRipples, container,
                           rippleTimer, indicators, attached, scn>>
    /\ UNCHANGED <<config, hass, hasContainer, navListening, down, row,
                   otherVars>>

\* the cleanup function returned by setupInteractions is called
Cleanup ==
    /\ navListening
    /\ Commit(resetInteractions(Machine))
    /\ attached' = FALSE
    /\ navListening' = FALSE
    /\ scn' = IF ScnOpen THEN [scn EXCEPT !.reset = TRUE] ELSE scn
    /\ row' = RowNone
    /\ UNCHANGED <<config, hass, hasContainer, down, otherVars>>

---------------------------------------------------------------------------
(* The logger module of src/utils/logger-utils.ts.  An operator takes    *)
(* the module variables lg and returns them with `out`, the console      *)
(* calls it made, in order.                                              *)

\* enum LogLevel
LogLevel == [ERROR |-> 0, WARN |-> 1, INFO |-> 2, DEBUG |-> 3]

\* the module variables when the module was loaded; debugFlag is
\* window.__CALENDAR_CARD_PRO_DEBUG__
LoggerLoaded ==
    [DEBUG_MODE |-> FALSE, BANNER_SHOWN |-> FALSE,
     CURRENT_LOG_LEVEL |-> LogLevel.WARN, debugFlag |-> None]

\* one call of a console method
ConsoleCall(method, text) == [method |-> method, text |-> text]

Silent(lg) == [logger |-> lg, out |-> <<>>]

\* the four console calls of the banner
Banner(version) ==
    <<ConsoleCall("groupCollapsed", version),
      ConsoleCall("log", "Description"),
      ConsoleCall("log", "GitHub"),
      ConsoleCall("groupEnd", "")>>

\* a printVersionBanner without the BANNER_SHOWN test
printVersionBanner_Always(lg, version) ==
    [logger |-> [lg EXCEPT !.BANNER_SHOWN = TRUE], out |-> Banner(version)]

\* printVersionBanner(version)
printVersionBanner(lg, version) ==
    IF lg.BANNER_SHOWN THEN Silent(lg)
    ELSE [logger |-> [lg EXCEPT !.BANNER_SHOWN = TRUE],
          out |-> Banner(version)]

\* initializeLogger(version, debugMode)
initializeLogger(lg, version, debugMode) ==
    printVersionBanner(
        [lg EXCEPT !.DEBUG_MODE = debugMode,
                   !.CURRENT_LOG_LEVEL = IF debugMode THEN LogLevel.DEBUG
                                         ELSE LogLevel.WARN],
        version)

\* the values passed to error(): an Error with or without a stack, a
\* string, or another value
ErrorArguments == {"Error with stack", "Error", "string", "other"}

\* error(messageOrError, ...data): the console.error calls
ErrorCalls(messageOrError, hasData) ==
    IF messageOrError \in {"Error with stack", "Error"}
    THEN <<ConsoleCall("error", "Error: message")>>
         \o (IF messageOrError = "Error with stack"
             THEN <<ConsoleCall("error", "stack")>> ELSE <<>>)
         \o (IF hasData
             THEN <<ConsoleCall("error", "Additional context:")>>
             ELSE <<>>)
    ELSE IF messageOrError = "string"
         THEN <<ConsoleCall("error", "message")>>
         ELSE <<ConsoleCall("error", "Unknown error type:")>>

\* error(messageOrError, ...data)
error(lg, messageOrError, hasData) ==
    IF lg.CURRENT_LOG_LEVEL < LogLevel.ERROR THEN Silent(lg)
    ELSE [logger |-> lg, out |-> ErrorCalls(messageOrError, hasData)]

\* warn(message, ...data)
warn(lg, message, hasData) ==
    IF lg.CURRENT_LOG_LEVEL >= LogLevel.WARN
    THEN [logger |-> lg, out |-> <<ConsoleCall("warn", message)>>]
    ELSE Silent(lg)

\* info(message, ...data)
info(lg, message, hasData) ==
    IF lg.CURRENT_LOG_LEVEL >= LogLevel.INFO
    THEN [logger |-> lg, out |-> <<ConsoleCall("log", message)>>]
    ELSE Silent(lg)

\* a debug that emits from level INFO on
debug_AtInfo(lg, message, hasData) == info(lg, message, hasData)

\* debug(message, ...data)
debug(lg, message, hasData) ==
    IF lg.CURRENT_LOG_LEVEL >= LogLevel.DEBUG
    THEN [logger |-> lg, out |-> <<ConsoleCall("log", message)>>]
    ELSE Silent(lg)

\* setLogLevel(level)
setLogLevel(lg, level) == Silent([lg EXCEPT !.CURRENT_LOG_LEVEL = level])

\* the end of setDebugMode: the flag of the window is set
WithDebugFlag(r, enable) ==
    [r EXCEPT !.logger.debugFlag = Some(enable)]

\* setDebugMode(enable)
setDebugMode(lg, enable) ==
    WithDebugFlag(
        info([lg EXCEPT !.DEBUG_MODE = enable,
                        !.CURRENT_LOG_LEVEL = IF enable THEN LogLevel.DEBUG
                                              ELSE LogLevel.WARN],
             IF enable THEN "Debug mode enabled" ELSE "Debug mode disabled",
             FALSE),
        enable)

\* the banner is among the console calls
HasBanner(out) == \E i \in 1..Len(out) : out[i].method = "groupCollapsed"

\* the logger module after it was loaded: no call yet, nothing printed
LoggerIdle ==
    /\ logger = LoggerLoaded
    /\ console = [fn |-> "none", out |-> <<>>, banners |-> 0]

\* a function of the module is called and returns r.  console (history):
\* the function, its arguments, the BANNER_SHOWN it found, its console
\* calls and the number of banners printed since the module was loaded
Called(fn, args, r) ==
    /\ logger' = r.logger
    /\ console' = [fn |-> fn, args |-> args,
                   shownBefore |-> logger.BANNER_SHOWN, out |-> r.out,
                   banners |-> console.banners
                                  + (IF HasBanner(r.out) THEN 1 ELSE 0)]
    /\ UNCHANGED <<actionVars, keyVars, viewVars, gestureVars, cardVars>>

InitializeLogger(version, debugMode) ==
    Called("initializeLogger", <<version, debugMode>>,
           initializeLogger(logger, version, debugMode))

CallPrintVersionBanner(version) ==
    Called("printVersionBanner", <<version>>,
           printVersionBanner(logger, version))

SetLogLevel(level) ==
    Called("setLogLevel", <<level>>, setLogLevel(logger, level))

SetDebugMode(enable) ==
    Called("setDebugMode", <<enable>>, setDebugMode(logger, enable))

LogError(messageOrError, hasData) ==
    Called("error", <<messageOrError, hasData>>,
           error(logger, messageOrError, hasData))

LogWarn(hasData) ==
    Called("warn", <<hasData>>, warn(logger, "message", hasData))

LogInfo(hasData) ==
    Called("info", <<hasData>>, info(logger, "message", hasData))

LogDebug(hasData) ==
    Called("debug", <<hasData>>, debug(logger, "message", hasData))

---------------------------------------------------------------------------
(* Specifications *)

Pending == [pending |-> TRUE]

\* the closure after setupInteractions(element, config, hass, ...) returned
GestureInit(cfg, hc) ==
    /\ config = cfg
    /\ hass = TRUE
    /\ hasContainer = hc
    /\ state = createFreshState
    /\ gestures = <<>>
    /\ holdLive = {}
    /\ activeRipples = <<>>
    /\ container = {}
    /\ rippleTimer = <<>>
    /\ indicators = <<>>
    /\ attached = IsSetUp(cfg, hc)
    /\ navListening = IsSetUp(cfg, hc)
    /\ navPending = 0
    /\ down = {}
    /\ scn = ScnNew(0)
    /\ row = RowNone

KeyIdle ==
    /\ keyIn = Pending
    /\ keyOut = Pending

ViewIdle ==
    /\ viewIn = Pending
    /\ viewOut = Pending

ActionIdle ==
    /\ actIn = [actionConfig |-> UndefinedAction, hass |-> FALSE,
                entityId |-> "", throwing |-> {}]
    /\ actOut = Pending

\* initializeState(): this.config = {} has no keys
\* shown: the content of the shadow root; renders: renderCard calls
\* waiting for a timeout of renderProgressively
initializeState ==
    [config |-> None, events |-> <<>>, hass |-> None, isLoading |-> TRUE,
     shown |-> [view |-> "nothing", days |-> <<>>], renders |-> <<>>]

\* no operation on the card yet
LogNone == [op |-> "none", retry |-> FALSE]

\* the card after its constructor returned
CardIdle ==
    /\ card = initializeState
    /\ localStorage = <<>>
    /\ clock = 0
    /\ cycles = <<>>
    /\ log = LogNone

Init ==
    /\ \E cfg \in GestureConfigs, hc \in BOOLEAN : GestureInit(cfg, hc)
    /\ ActionIdle
    /\ KeyIdle
    /\ ViewIdle
    /\ CardIdle
    /\ LoggerIdle

Next ==
    \/ \E p \in Pointers, pt \in DownPoints : PointerDownOnElement(p, pt)
    \/ \E p \in Pointers, pt \in MovePoints : PointerMove(p, pt)
    \/ \E p \in Pointers, throwing \in {{}, HostPrimitives} :
          PointerUp(p, throwing)
    \/ \E p \in Pointers : PointerCancel(p)
    \/ \E g \in 1..MaxGestures : HoldTimerFire(g)
    \/ \E g \in 1..MaxGestures : RippleUpDelay(g)
    \/ \E g \in 1..MaxGestures : RippleRemove(g)
    \/ \E g \in 1..MaxGestures : IndicatorRemove(g)
    \/ Navigate
    \/ \E isConnected \in BOOLEAN : NavRebuild(isConnected)
    \/ Cleanup

Spec == Init /\ [][Next]_vars

\* every timeout that was set and not cleared runs in the end: the hold
\* timeout, the timeouts of the ripple fade-out and of the indicator
\* fade-out, and the rebuild timeout.  Pointer and navigation events are
\* up to the user: nothing obliges them to happen
TimersRun ==
    /\ \A g \in 1..MaxGestures :
          /\ WF_vars(HoldTimerFire(g))
          /\ WF_vars(RippleUpDelay(g))
          /\ WF_vars(RippleRemove(g))
          /\ WF_vars(IndicatorRemove(g))
    /\ WF_vars(\E isConnected \in BOOLEAN : NavRebuild(isConnected))

SpecFair == Spec /\ TimersRun


---------------------------------------------------------------------------
(* handleAction as a function of its arguments *)

ActionTypes ==
    {Undef, "", "none", "more-info", "navigate", "call-service", "url",
     "expand", "toggle"}
NavigationPaths == {None, Some(<<>>), Some(<<"/", "c">>)}
Services ==
    {None, Some(<<>>), Some(<<"a">>), Some(<<"a", ".", "b">>),
     Some(<<"a", ".", "b", ".", "c">>), Some(<<"a", ".">>)}
ServiceData == {None, Some("{x: 1}")}
UrlPaths == {None, Some(<<>>), Some(<<"/", "u">>), Some(<<"u">>)}

ActionConfigs ==
    {UndefinedAction} \cup
    {ActionObject(a, n, s, d, u) :
        a \in ActionTypes, n \in NavigationPaths, s \in Services,
        d \in ServiceData, u \in UrlPaths}

InitAction ==
    /\ actIn \in [actionConfig : ActionConfigs,
                  hass : BOOLEAN,
                  entityId : {Undef, "calendar.family"},
                  throwing : {{}, {"windowDispatch"}, HostPrimitives}]
    /\ actOut = Pending
    /\ GestureInit(GestureConfig(UndefinedAction, UndefinedAction), FALSE)
    /\ KeyIdle
    /\ ViewIdle
    /\ CardIdle
    /\ LoggerIdle

\* handleAction(actionConfig, hass, element, entityId, toggleExpanded)
CallHandleAction ==
    /\ actOut = Pending
    /\ actOut' = handleAction(actIn.actionConfig, actIn.hass, actIn.entityId,
                              actIn.throwing)
    /\ UNCHANGED <<actIn, keyVars, viewVars, gestureVars, cardVars,
                   loggerVars>>

NextAction == CallHandleAction

SpecAction == InitAction /\ [][NextAction]_vars

---------------------------------------------------------------------------
(* getCacheKey as a function of the configuration, the instance and the day *)

EntityA == <<"c", ".", "a">>
EntityB == <<"c", ".", "b">>
ArrayOf(items) == [isArray |-> TRUE, items |-> items]

UserEntities ==
    {None,
     Some([isArray |-> FALSE]),
     Some(ArrayOf(<<StringItem(EntityA)>>)),
     Some(ArrayOf(<<StringItem(EntityB)>>)),
     Some(ArrayOf(<<StringItem(EntityA), StringItem(EntityB)>>)),
     Some(ArrayOf(<<ObjectItem(Some(EntityA), Some(<<"r", "e", "d">>))>>)),
     Some(ArrayOf(<<OtherItem, ObjectItem(None, None)>>))}

UserConfigs ==
    [entities : UserEntities,
     days_to_show : {None, Some(7)},
     show_past_events : {None, Some(TRUE)}]

\* this.instanceId
InstanceIds == {<<"k", "3">>, <<"z", "9", "q">>}

Days ==
    {[day |-> 1, month |-> 10, date |-> 2, year |-> 2026],
     [day |-> 2, month |-> 10, date |-> 3, year |-> 2026],
     [day |-> 4, month |-> 11, date |-> 31, year |-> 2026]}

InitKey ==
    /\ keyIn \in [a : UserConfigs, b : UserConfigs,
                  instanceId : InstanceIds, today : Days, otherDay : Days]
    /\ keyOut = Pending
    /\ GestureInit(GestureConfig(UndefinedAction, UndefinedAction), FALSE)
    /\ ActionIdle
    /\ ViewIdle
    /\ CardIdle
    /\ LoggerIdle

\* setConfig(a) then getCacheKey(), and the same for b, on one card and day;
\* and getCacheKey() of a once more, new Date() being the other day
ComputeKeys ==
    /\ keyOut = Pending
    /\ keyOut' = [a |-> getCacheKey(setConfig(keyIn.a), keyIn.instanceId,
                                    keyIn.today),
                  b |-> getCacheKey(setConfig(keyIn.b), keyIn.instanceId,
                                    keyIn.today),
                  aOtherDay |-> getCacheKey(setConfig(keyIn.a),
                                            keyIn.instanceId, keyIn.otherDay)]
    /\ UNCHANGED <<keyIn, actionVars, viewVars, gestureVars, cardVars,
                   loggerVars>>

NextKey == ComputeKeys

SpecKey == InitKey /\ [][NextKey]_vars

---------------------------------------------------------------------------
(* The logger module, called in any order *)

Versions == {"1.0.0", "1.1.0"}
\* banners counted, at most
MaxBanners == 2

InitLogger ==
    /\ GestureInit(GestureConfig(UndefinedAction, UndefinedAction), FALSE)
    /\ ActionIdle
    /\ KeyIdle
    /\ ViewIdle
    /\ CardIdle
    /\ LoggerIdle

BannerBound == console.banners <= MaxBanners

NextLogger ==
    \/ \E version \in Versions, debugMode \in BOOLEAN :
          InitializeLogger(version, debugMode) /\ BannerBound'
    \/ \E version \in Versions :
          CallPrintVersionBanner(version) /\ BannerBound'
    \/ \E level \in {LogLevel[n] : n \in DOMAIN LogLevel} :
          SetLogLevel(level)
    \/ \E enable \in BOOLEAN : SetDebugMode(enable)
    \/ \E messageOrError \in ErrorArguments, hasData \in BOOLEAN :
          LogError(messageOrError, hasData)
    \/ \E hasData \in BOOLEAN : LogWarn(hasData)
    \/ \E hasData \in BOOLEAN : LogInfo(hasData)
    \/ \E hasData \in BOOLEAN : LogDebug(hasData)

SpecLogger == InitLogger /\ [][NextLogger]_vars

---------------------------------------------------------------------------
(* The card of src/README.md: setConfig, the hass setter, updateEvents and *)
(* its fetch cycles, the event cache in localStorage and its sweep.        *)
(* The clock counts milliseconds from local midnight of the second         *)
(* Calendar day.  An await is a step boundary: a fetch cycle is one record *)
(* of `cycles` from its first callApi until its last response.             *)

\* setInterval(() => this.cleanupCache(), 3600000)
HourMs == 3600000
\* now - cache.timestamp > 86400000
DayMs == 86400000

\* CalendarCardPro.CHUNK_SIZE
CHUNK_SIZE == 10

\* the instants at which the card is looked at: twice after six hours,
\* then after a day each time, MaxTicks times at most
TickMs(t) == IF t < 12 * HourMs THEN 6 * HourMs ELSE DayMs
MaxTicks == 3
LastTick == 12 * HourMs + (MaxTicks - 2) * DayMs
\* updateEvents activations awaiting a response at one time, at most
MaxCycles == 1
\* items localStorage holds before setItem fails with a quota error
MaxEntries == 2

\* consecutive local calendar days; the clock starts on the second one
Calendar ==
    <<[day |-> 0, month |-> 10, date |-> 1, year |-> 2026],
      [day |-> 1, month |-> 10, date |-> 2, year |-> 2026],
      [day |-> 2, month |-> 10, date |-> 3, year |-> 2026],
      [day |-> 3, month |-> 10, date |-> 4, year |-> 2026],
      [day |-> 4, month |-> 10, date |-> 5, year |-> 2026]>>

\* new Date() at clock value t: the index of its local calendar day
NewDate(t) == (t \div DayMs) + 2

\* yesterday.setDate(yesterday.getDate() - 1)
Yesterday(t) == NewDate(t) - 1

\* this.instanceId of the card
CardInstanceId == <<"k", "3">>

\* the configurations the host passes to setConfig
CardUserConfigs ==
    {[entities |-> Some(ArrayOf(<<StringItem(EntityA)>>)),
      days_to_show |-> None, show_past_events |-> None],
     [entities |-> Some(ArrayOf(<<StringItem(EntityA), StringItem(EntityB)>>)),
      days_to_show |-> None, show_past_events |-> None]}

\* a configuration that displays one day more than a chunk of
\* renderProgressively holds
ManyDaysConfig ==
    [entities |-> Some(ArrayOf(<<StringItem(EntityA)>>)),
     days_to_show |-> Some(CHUNK_SIZE + 1), show_past_events |-> None]

\* getCacheKey() for every configuration of the card and every day,
\* computed once
CacheKeys ==
    [cfg \in {setConfig(u) : u \in CardUserConfigs \cup {ManyDaysConfig}} |->
        [d \in DOMAIN Calendar |->
            getCacheKey(cfg, CardInstanceId, Calendar[d])]]

\* getCacheKey(), this.config being cfg and Date.now() being t
CacheKey(cfg, t) == CacheKeys[cfg][NewDate(t)]

(* ---- localStorage: items in key(i) order; a value is a JSON text ---- *)

\* JSON.parse(null): getItem of a missing key returns null, read as "null"
Text_null == [text |-> "null"]
\* a text JSON.parse rejects, such as '{'
Text_garbage == [text |-> "unparseable"]
\* the text '{}': parseable, without events and timestamp
Text_emptyObject == [text |-> "{}"]

\* JSON.stringify({ events, timestamp }): events are plain objects of
\* strings, so the text keeps every property
JsonStringifyEntry(events, timestamp) ==
    [text |-> "entry", events |-> events, timestamp |-> timestamp]

\* JSON.parse(text): raises on a rejected text, else null or an object
\* whose properties may be undefined
JsonParse(t) ==
    IF t.text = "unparseable" THEN [raised |-> TRUE]
    ELSE IF t.text = "null" THEN [raised |-> FALSE, isNull |-> TRUE]
    ELSE IF t.text = "{}"
         THEN [raised |-> FALSE, isNull |-> FALSE,
               events |-> None, timestamp |-> None]
    ELSE [raised |-> FALSE, isNull |-> FALSE,
          events |-> Some(t.events), timestamp |-> Some(t.timestamp)]

HasKey(store, key) == \E i \in 1..Len(store) : store[i].key = key

IndexOfKey(store, key) == CHOOSE i \in 1..Len(store) : store[i].key = key

\* localStorage.getItem(key)
getItem(store, key) ==
    IF HasKey(store, key) THEN store[IndexOfKey(store, key)].value
    ELSE Text_null

\* localStorage.removeItem(key)
removeItem(store, key) == SelectSeq(store, LAMBDA e : e.key # key)

\* localStorage.setItem(key, value) raises when the quota is exceeded:
\* when the host says so, or when a new item does not fit
SetItemRaises(store, key, quotaOk) ==
    \/ ~quotaOk
    \/ ~HasKey(store, key) /\ Len(store) >= MaxEntries

\* localStorage.setItem(key, value) that does not raise
setItem(store, key, value) ==
    IF HasKey(store, key)
    THEN [store EXCEPT ![IndexOfKey(store, key)].value = value]
    ELSE Append(store, [key |-> key, value |-> value])

(* ---- the cache ---- *)

Str_undefined ==
    <<"u", "n", "d", "e", "f", "i", "n", "e", "d">>

\* `calendar_${this.config.entity}`: no configuration has an entity key
cachePrefix == Str_calendar_ \o Str_undefined

\* the body of the for loop of cleanupCache for key(i): TRUE if the item
\* is removed
SweepRemoves(item, t) ==
    /\ StartsWith(item.key, cachePrefix)
    /\ \/ JsonParse(item.value).raised
       \/ JsonParse(item.value).isNull
       \/ /\ JsonParse(item.value).timestamp.has
          /\ t - JsonParse(item.value).timestamp.v > DayMs

RECURSIVE SweepFrom(_, _, _)
\* the for loop of cleanupCache from index i on (1-based): after a
\* removal the following items move up and i still advances
SweepFrom(store, i, t) ==
    IF i > Len(store) THEN store
    ELSE IF SweepRemoves(store[i], t)
         THEN SweepFrom(removeItem(store, store[i].key), i + 1, t)
         ELSE SweepFrom(store, i + 1, t)

\* a sweep that looks at the age only and at every item
cleanupCache_ByAge(store, t) ==
    SelectSeq(store, LAMBDA e :
        ~(/\ ~JsonParse(e.value).raised
          /\ ~JsonParse(e.value).isNull
          /\ JsonParse(e.value).timestamp.has
          /\ t - JsonParse(e.value).timestamp.v > DayMs))

\* cleanupCache()
cleanupCache(store, t) == SweepFrom(store, 1, t)

\* getAllCacheKeys(): today's and yesterday's key of the configuration
getAllCacheKeys(cfg, t) ==
    <<CacheKeys[cfg][NewDate(t)], CacheKeys[cfg][Yesterday(t)]>>

\* invalidateCache()
invalidateCache(cfg, store, t) ==
    removeItem(removeItem(store, getAllCacheKeys(cfg, t)[1]),
               getAllCacheKeys(cfg, t)[2])

\* (this.config.update_interval || 300) * 1000
cacheDuration(cfg) ==
    (IF cfg.update_interval = 0 THEN 300 ELSE cfg.update_interval) * 1000

\* the if of getCachedEvents on the parsed item: cache is truthy and
\* Date.now() - cache.timestamp < cacheDuration (NaN compares false)
CacheIsFresh(parsed, cfg, t) ==
    /\ ~parsed.isNull
    /\ parsed.timestamp.has
    /\ t - parsed.timestamp.v < cacheDuration(cfg)

\* getCachedEvents with <= in place of <
getCachedEvents_Inclusive(cfg, store, t) ==
    IF JsonParse(getItem(store, CacheKey(cfg, t))).raised
    THEN [raised |-> FALSE, value |-> None, store |-> store]
    ELSE IF LET parsed ==
                   JsonParse(getItem(store, CacheKey(cfg, t)))
            IN /\ ~parsed.isNull
               /\ parsed.timestamp.has
               /\ t - parsed.timestamp.v <= cacheDuration(cfg)
         THEN [raised |-> FALSE,
               value |-> JsonParse(getItem(store,
                             CacheKey(cfg, t))).events,
               store |-> store]
         ELSE [raised |-> FALSE, value |-> None, store |-> store]

\* getCachedEvents(): value is cache.events or None for null; the catch
\* clause logs a warning and leaves the item where it is.  The marker
\* "used" that it sets in sessionStorage is read nowhere.
getCachedEvents(cfg, store, t) ==
    IF JsonParse(getItem(store, CacheKey(cfg, t))).raised
    THEN [raised |-> FALSE, value |-> None, store |-> store]
    ELSE IF CacheIsFresh(JsonParse(getItem(store,
                             CacheKey(cfg, t))),
                         cfg, t)
         THEN [raised |-> FALSE,
               value |-> JsonParse(getItem(store,
                             CacheKey(cfg, t))).events,
               store |-> store]
         ELSE [raised |-> FALSE, value |-> None, store |-> store]

\* cacheEvents without its try and catch
cacheEvents_NoCatch(cfg, store, t, events, quotaOk) ==
    IF SetItemRaises(store, CacheKey(cfg, t),
                     quotaOk)
    THEN [raised |-> TRUE, value |-> FALSE, store |-> store]
    ELSE [raised |-> FALSE, value |-> TRUE,
          store |-> setItem(store,
                            CacheKey(cfg, t),
                            JsonStringifyEntry(events, t))]

\* cacheEvents(events): value is its result
cacheEvents(cfg, store, t, events, quotaOk) ==
    IF SetItemRaises(store, CacheKey(cfg, t),
                     quotaOk)
    THEN [raised |-> FALSE, value |-> FALSE, store |-> store]
    ELSE [raised |-> FALSE, value |-> TRUE,
          store |-> setItem(store,
                            CacheKey(cfg, t),
                            JsonStringifyEntry(events, t))]

(* ---- configuration ---- *)

relevantKeys ==
    {"entities", "days_to_show", "show_past_events", "update_interval"}

\* JSON.stringify(config[key]) for the relevant keys; None is undefined,
\* the value of every key of the {} that initializeState assigns
JsonOfKey(c, key) ==
    IF ~c.has THEN None
    ELSE IF key = "entities"
         THEN Some(<<"[">>
                   \o ArrayJoin([i \in 1..Len(c.v.entities) |->
                                    JsonEntity(c.v.entities[i])], <<",">>)
                   \o <<"]">>)
    ELSE IF key = "show_past_events"
         THEN Some(BooleanToString(c.v.show_past_events))
    ELSE Some(NumberToString(c.v[key]))

\* hasConfigChanged(previous, current); previous is an object, never falsy
hasConfigChanged(previous, current) ==
    \E key \in relevantKeys : JsonOfKey(previous, key) # JsonOfKey(current, key)

(* ---- the events and the days displayed.  An instant is a count of  ---- *)
(* ---- milliseconds from midnight of day 0; local time is UTC, so    ---- *)
(* ---- the date of toISOString() is the local date.                  ---- *)

\* an all-day event of day d, as the host returns it
AllDay(summary, d) ==
    [summary |-> summary,
     start |-> Some([dateTime |-> None, date |-> Some(d)]),
     end |-> Some([dateTime |-> None, date |-> Some(d + 1)])]

\* an event of one hour that starts at h o'clock on day d
Timed(summary, d, h) ==
    [summary |-> summary,
     start |-> Some([dateTime |-> Some(d * DayMs + h * HourMs),
                     date |-> None]),
     end |-> Some([dateTime |-> Some(d * DayMs + (h + 1) * HourMs),
                   date |-> None])]

\* new Date(event.start.dateTime || event.start.date): a dateTime is an
\* instant, a date is a day number and parses as its midnight
NewDateOf(time) ==
    IF time.dateTime.has THEN time.dateTime.v ELSE time.date.v * DayMs

\* new Date(y, m, d) of an instant: the start of its day
StartOfDay(t) == (t \div DayMs) * DayMs

\* setHours(23, 59, 59, 999)
EndOfDay(t) == StartOfDay(t) + DayMs - 1

\* parseInt(this.config.days_to_show) || 3, and this.config.days_to_show
\* || 3 of groupEventsByDay, the value being a number
daysToShow(cfg) == IF cfg.days_to_show = 0 THEN 3 ELSE cfg.days_to_show

\* getTimeWindow(): end.setDate(start.getDate() + daysToShow), then the
\* end of that day
getTimeWindow(cfg, now) ==
    [start |-> StartOfDay(now),
     end |-> EndOfDay(StartOfDay(now) + daysToShow(cfg) * DayMs)]

\* the host's answer to GET calendars/<entity>?start=..&end=..: the events
\* of the calendar that overlap the window
callApi(calendar, window) ==
    SelectSeq(calendar, LAMBDA e :
        /\ NewDateOf(e.start.v) < window.end
        /\ NewDateOf(e.end.v) > window.start)

\* startDate.toISOString().split('T')[0], as a day number
eventDateKey(e) == NewDateOf(e.start.v) \div DayMs

\* !event.start.dateTime
isAllDayEvent(e) == ~e.start.v.dateTime.has

\* the forEach body of groupEventsByDay: TRUE if the event is pushed
Pushed(e, cfg, now) ==
    /\ e.start.has /\ e.end.has
    /\ NewDateOf(e.start.v) >= StartOfDay(now)
    /\ cfg.show_past_events
          \/ isAllDayEvent(e)
          \/ ~(NewDateOf(e.end.v) < now)

RECURSIVE SortByStart(_)
\* Array.prototype.sort by start instant, equal instants in given order
SortByStart(events) ==
    IF events = <<>> THEN <<>>
    ELSE LET least == CHOOSE i \in 1..Len(events) :
                 \A j \in 1..Len(events) :
                     \/ NewDateOf(events[i].start.v)
                            < NewDateOf(events[j].start.v)
                     \/ /\ NewDateOf(events[i].start.v)
                               = NewDateOf(events[j].start.v)
                        /\ i <= j
         IN <<events[least]>>
            \o SortByStart(SubSeq(events, 1, least - 1)
                           \o SubSeq(events, least + 1, Len(events)))

\* day.events.sort(...): all-day events first, then by start
SortDay(events) ==
    SelectSeq(events, isAllDayEvent)
    \o SortByStart(SelectSeq(events, LAMBDA e : ~isAllDayEvent(e)))

\* eventsByDay[eventDateKey] of the pushed events
DayOfKey(pushed, key) ==
    [timestamp |-> NewDateOf(SelectSeq(pushed,
                       LAMBDA e : eventDateKey(e) = key)[1].start.v),
     events |-> SortDay(SelectSeq(pushed,
                       LAMBDA e : eventDateKey(e) = key))]

RECURSIVE SortByTimestamp(_)
\* Object.values(eventsByDay).sort((a, b) => a.timestamp - b.timestamp)
SortByTimestamp(days) ==
    IF days = {} THEN <<>>
    ELSE LET first == CHOOSE d \in days :
                 \A o \in days : d.timestamp <= o.timestamp
         IN <<first>> \o SortByTimestamp(days \ {first})

\* .slice(0, n)
Slice0(seq, n) == SubSeq(seq, 1, IF n < Len(seq) THEN n ELSE Len(seq))

\* groupEventsByDay(), this.events being `events`
groupEventsByDay(events, cfg, now) ==
    Slice0(SortByTimestamp(
               {DayOfKey(SelectSeq(events,
                             LAMBDA e : Pushed(e, cfg, now)), key) :
                    key \in {eventDateKey(e) :
                                e \in {events[i] : i \in
                                    {j \in 1..Len(events) :
                                        Pushed(events[j], cfg, now)}}}}),
           daysToShow(cfg))

(* ---- the card object ---- *)

\* isValidState()
isValidState(cd) == cd.hass.has /\ Len(cd.config.v.entities) # 0

\* the end of renderCard, after await this.renderProgressively(days):
\* the shadow root's children are replaced by the style and the container
UpdateShadowDom(cd, days) ==
    [cd EXCEPT !.shown = [view |-> "card", days |-> days]]

\* renderCard() from const eventsByDay = this.groupEventsByDay() on.
\* For no days renderProgressively returns a string, and
\* content.appendChild(string) raises a TypeError that rejects the promise
\* of renderCard, which no caller awaits: the shadow root stays as it is.
\* For more than CHUNK_SIZE days renderProgressively awaits a timeout
\* after each chunk but the last; otherwise the render ends in the
\* microtasks that follow the call, before any other event is handled.
RenderDays(cd, days) ==
    IF Len(days) = 0 THEN cd
    ELSE IF CHUNK_SIZE < Len(days)
         THEN [cd EXCEPT !.renders =
                  Append(@, [days |-> days, startIdx |-> 0])]
         ELSE UpdateShadowDom(cd, days)

\* a render that replaces the content for no days as well
renderCard_ShowsEmpty(cd) ==
    IF ~isValidState(cd)
    THEN [cd EXCEPT !.shown = [view |-> "error", days |-> <<>>]]
    ELSE IF cd.isLoading /\ Len(cd.events) = 0
         THEN [cd EXCEPT !.shown = [view |-> "loading", days |-> <<>>]]
         ELSE UpdateShadowDom(cd,
                  groupEventsByDay(cd.events, cd.config.v, clock))

\* renderCard(), Date.now() being the clock; renderError replaces the
\* content of the shadow root at once
renderCard(cd) ==
    IF ~isValidState(cd)
    THEN [cd EXCEPT !.shown = [view |-> "error", days |-> <<>>]]
    ELSE IF cd.isLoading /\ Len(cd.events) = 0
         THEN [cd EXCEPT !.shown = [view |-> "loading", days |-> <<>>]]
         ELSE RenderDays(cd, groupEventsByDay(cd.events, cd.config.v, clock))

\* a timeout of renderProgressively runs for the pending render r: the
\* next chunk is built, and after the last chunk renderCard goes on
renderChunk(cd, r) ==
    IF cd.renders[r].startIdx + CHUNK_SIZE + CHUNK_SIZE
           < Len(cd.renders[r].days)
    THEN [cd EXCEPT !.renders[r].startIdx = @ + CHUNK_SIZE]
    ELSE UpdateShadowDom(
             [cd EXCEPT !.renders = SubSeq(@, 1, r - 1)
                                    \o SubSeq(@, r + 1, Len(@))],
             cd.renders[r].days)

\* an updateEvents that reads the cache whether forced or not
updateEvents_CacheFirst(cd, store, t, force) ==
    IF ~isValidState(cd)
    THEN [card |-> cd, started |-> FALSE, cached |-> None]
    ELSE IF getCachedEvents(cd.config.v, store, t).value.has
         THEN [card |-> renderCard([cd EXCEPT !.events =
                           getCachedEvents(cd.config.v, store, t).value.v]),
               started |-> FALSE,
               cached |-> getCachedEvents(cd.config.v, store, t).value]
         ELSE [card |-> renderCard([cd EXCEPT !.isLoading = TRUE]),
               started |-> TRUE, cached |-> None]

\* updateEvents(force) up to its first await.  started: fetchEvents was
\* called; cached: what getCachedEvents returned, None if it was not called
updateEvents(cd, store, t, force) ==
    IF ~isValidState(cd)
    THEN [card |-> cd, started |-> FALSE, cached |-> None]
    ELSE IF ~force /\ getCachedEvents(cd.config.v, store, t).value.has
         THEN [card |-> renderCard([cd EXCEPT !.events =
                           getCachedEvents(cd.config.v, store, t).value.v]),
               started |-> FALSE,
               cached |-> getCachedEvents(cd.config.v, store, t).value]
         ELSE [card |-> renderCard([cd EXCEPT !.isLoading = TRUE]),
               started |-> TRUE, cached |-> None]

\* fetchEvents() up to its first await: the for loop is at the first entity
\* History fields.  overlapped: another activation of updateEvents was
\* awaiting a response at some time while this one was; config, day:
\* this.config and the local calendar day when fetchEvents was called
StartFetch(cfg) ==
    [entities |-> cfg.entities, idx |-> 1, allEvents |-> <<>>,
     outcomes |-> <<>>, awaiting |-> "fetchEvents", overlapped |-> FALSE,
     config |-> cfg, day |-> 0]

\* events.map(event => ({ ...event, _entityConfig: entityConfig }))
Tagged(events, entityConfig) ==
    [i \in 1..Len(events) |->
        [summary |-> events[i].summary, start |-> events[i].start,
         end |-> events[i].end, entityConfig |-> entityConfig]]

\* a fetchEvents whose catch clause drops what was collected so far
fetchEvents_Abort(cy, outcome) ==
    [cy EXCEPT
        !.allEvents = IF outcome.ok
                      THEN @ \o Tagged(outcome.events, cy.entities[cy.idx])
                      ELSE <<>>,
        !.outcomes = Append(@, outcome),
        !.idx = @ + 1]

\* one turn of the for loop of fetchEvents: callApi resolved or rejected
fetchEvents(cy, outcome) ==
    [cy EXCEPT
        !.allEvents = IF outcome.ok
                      THEN @ \o Tagged(outcome.events, cy.entities[cy.idx])
                      ELSE @,
        !.outcomes = Append(@, outcome),
        !.idx = @ + 1]

\* the finally clause of updateEvents
Finally(cd) == renderCard([cd EXCEPT !.isLoading = FALSE])

\* the try, catch and finally of updateEvents once fetchEvents returned
\* `fetched`, given what cacheEvents did (w); cd has this.events assigned.
\* fallback: the catch clause awaits fetchTodayEvents
AfterCache(cd, w) ==
    IF ~w.raised
    THEN [card |-> Finally(cd), store |-> w.store, fallback |-> FALSE,
          wrote |-> w.value, raised |-> FALSE]
    ELSE IF Len(cd.events) = 0
         THEN [card |-> cd, store |-> w.store, fallback |-> TRUE,
               wrote |-> FALSE, raised |-> TRUE]
         ELSE [card |-> Finally(cd), store |-> w.store, fallback |-> FALSE,
               wrote |-> FALSE, raised |-> TRUE]

\* this.events = events; this.cacheEvents(events); ...
AfterFetch(cd, store, t, fetched, quotaOk) ==
    AfterCache([cd EXCEPT !.events = fetched],
               cacheEvents(cd.config.v, store, t, fetched, quotaOk))

\* this.events = partialEvents || [], then the finally clause
AfterFallback(cd, outcome) ==
    Finally([cd EXCEPT !.events = IF outcome.ok THEN outcome.events
                                  ELSE <<>>])

\* hass.states[entity]?.state, the key being String(entity)
StateOf(h, key) ==
    IF key \in DOMAIN h.states THEN Some(h.states[key]) ELSE None

\* entitiesChanged of the hass setter: the configured entities are
\* objects, so each one is looked up as '[object Object]'
entitiesChanged(cfg, previousHass, h) ==
    \E i \in 1..Len(cfg.entities) :
        \/ ~previousHass.has
        \/ StateOf(previousHass.v, Str_objectObject)
               # StateOf(h, Str_objectObject)

(* ---- history variable log: the latest operation; retry is TRUE from  *)
(* the end of a fetch cycle whose queries all failed to the next        *)
(* updateEvents call in a valid state                                   *)

AllFailed(outcomes) == \A i \in 1..Len(outcomes) : ~outcomes[i].ok

\* an operation that no property reads
LogOther == [op |-> "other", retry |-> log.retry]

\* a stored text that is not what cacheEvents writes
Corrupt(text) == text.text \notin {"null", "entry"}

\* updateEvents(force) was called and returned r at its first await;
\* corrupt: the item of the current key was corrupt
LogUpdate(cd, force, r) ==
    IF isValidState(cd)
    THEN [op |-> "update", valid |-> TRUE, force |-> force,
          corrupt |-> Corrupt(getItem(localStorage,
                                      CacheKey(cd.config.v, clock))),
          cached |-> r.cached, queried |-> r.started,
          afterAllFailed |-> log.retry, retry |-> FALSE]
    ELSE [op |-> "update", valid |-> FALSE, force |-> force,
          queried |-> r.started, retry |-> log.retry]

(* ---- operations ---- *)

nonCardVars == <<actionVars, keyVars, viewVars, gestureVars, loggerVars>>

\* a cycle is added when updateEvents called fetchEvents
WithCycle(r, cfg) ==
    cycles' = IF r.started
              THEN Append([c \in 1..Len(cycles) |->
                              [cycles[c] EXCEPT !.overlapped = TRUE]],
                          [StartFetch(cfg) EXCEPT
                              !.overlapped = cycles # <<>>,
                              !.day = NewDate(clock)])
              ELSE cycles

\* setConfig(config)
SetConfig(u) ==
    LET cd == [card EXCEPT !.config = Some(setConfig(u))]
        changed == hasConfigChanged(card.config, Some(setConfig(u)))
    IN IF changed
       THEN /\ localStorage' = invalidateCache(setConfig(u), localStorage, clock)
            /\ card' = updateEvents(cd, localStorage', clock, TRUE).card
            /\ WithCycle(updateEvents(cd, localStorage', clock, TRUE),
                         setConfig(u))
            /\ log' = [op |-> "setConfig", changed |-> TRUE,
                       previous |-> card.config,
                       retry |-> log.retry /\ ~isValidState(cd)]
            /\ UNCHANGED <<clock, nonCardVars>>
       ELSE /\ card' = renderCard(cd)
            /\ log' = [op |-> "setConfig", changed |-> FALSE,
                       previous |-> card.config, retry |-> log.retry]
            /\ UNCHANGED <<localStorage, cycles, clock, nonCardVars>>

\* set hass(hass), called by the host after setConfig
SetHass(h) ==
    /\ card.config.has
    /\ LET cd == [card EXCEPT !.hass = Some(h)] IN
       IF entitiesChanged(card.config.v, card.hass, h)
       THEN /\ card' = updateEvents(cd, localStorage, clock, FALSE).card
            /\ WithCycle(updateEvents(cd, localStorage, clock, FALSE),
                         card.config.v)
            /\ log' = LogUpdate(cd, FALSE,
                                updateEvents(cd, localStorage, clock, FALSE))
       ELSE /\ card' = cd
            /\ log' = [op |-> "hass", previous |-> card.hass,
                       retry |-> log.retry]
            /\ UNCHANGED cycles
    /\ UNCHANGED <<localStorage, clock, nonCardVars>>

\* updateEvents(force) called on the card
UpdateEvents(force) ==
    /\ card.config.has
    /\ card' = updateEvents(card, localStorage, clock, force).card
    /\ WithCycle(updateEvents(card, localStorage, clock, force), card.config.v)
    /\ log' = LogUpdate(card, force,
                        updateEvents(card, localStorage, clock, force))
    /\ UNCHANGED <<localStorage, clock, nonCardVars>>

RemoveAt(seq, i) == SubSeq(seq, 1, i - 1) \o SubSeq(seq, i + 1, Len(seq))

\* fetchEvents returned cy.allEvents: the rest of updateEvents
Settle(c, cy, r, quotaOk) ==
    /\ card' = r.card
    /\ localStorage' = r.store
    /\ cycles' = IF r.fallback
                 THEN [cycles EXCEPT ![c] =
                          [cy EXCEPT !.awaiting = "fetchTodayEvents"]]
                 ELSE RemoveAt(cycles, c)
    /\ log' = [op |-> "fetched", entities |-> cy.entities,
               outcomes |-> cy.outcomes, fetched |-> cy.allEvents,
               before |-> card.events,
               writeFailed |-> SetItemRaises(localStorage,
                                  CacheKey(card.config.v, clock), quotaOk),
               wrote |-> r.wrote,
               raised |-> r.raised, fallback |-> r.fallback,
               finished |-> ~r.fallback,
               overlapped |-> cy.overlapped,
               retry |-> AllFailed(cy.outcomes)]

\* a callApi promise of cycle c settles: resolved with events or rejected
ApiResponse(c, outcome, quotaOk) ==
    /\ c \in 1..Len(cycles)
    /\ IF cycles[c].awaiting = "fetchTodayEvents"
       THEN /\ quotaOk
            /\ card' = AfterFallback(card, outcome)
            /\ cycles' = RemoveAt(cycles, c)
            /\ log' = [op |-> "fallback", ok |-> outcome.ok,
                       retry |-> ~outcome.ok]
            /\ UNCHANGED localStorage
       ELSE IF cycles[c].idx < Len(cycles[c].entities)
       THEN /\ quotaOk
            /\ cycles' = [cycles EXCEPT ![c] = fetchEvents(@, outcome)]
            /\ log' = LogOther
            /\ UNCHANGED <<card, localStorage>>
       ELSE Settle(c, fetchEvents(cycles[c], outcome),
                   AfterFetch(card, localStorage, clock,
                              fetchEvents(cycles[c], outcome).allEvents,
                              quotaOk),
                   quotaOk)
    /\ UNCHANGED <<clock, nonCardVars>>

\* the hourly interval timer runs cleanupCache
CleanupCache ==
    /\ localStorage' = cleanupCache(localStorage, clock)
    /\ log' = [op |-> "sweep", before |-> localStorage, retry |-> log.retry]
    /\ UNCHANGED <<card, cycles, clock, nonCardVars>>

\* time passes
Tick ==
    /\ clock + TickMs(clock) <= LastTick
    /\ clock' = clock + TickMs(clock)
    /\ log' = LogOther
    /\ UNCHANGED <<card, localStorage, cycles, nonCardVars>>

\* a key that another script of the page uses
ForeignKey == cachePrefix \o <<"_", "x">>

\* another script of the page, or the user, sets an item
OtherSetItem(key, text) ==
    /\ HasKey(localStorage, key) \/ (key = ForeignKey /\ text = Text_garbage)
    /\ ~SetItemRaises(localStorage, key, TRUE)
    /\ getItem(localStorage, key) # text
    /\ localStorage' = setItem(localStorage, key, text)
    /\ log' = LogOther
    /\ UNCHANGED <<card, cycles, clock, nonCardVars>>

(* ---- specification of the card ---- *)

\* hass objects: the state token of each calendar entity
HassObjects ==
    {[states |-> [e \in {EntityA} |-> "on"]]}

\* what a callApi promise settles with: a rejection, no events, or the
\* all-day event of day 1, which is in the query window on day 0 and on
\* day 1
ApiOutcomes ==
    {[ok |-> FALSE],
     [ok |-> TRUE, events |-> <<>>],
     [ok |-> TRUE, events |-> <<AllDay("x", LastTick \div DayMs)>>]}

StoredKeys == {localStorage[i].key : i \in 1..Len(localStorage)}

InitCard ==
    /\ CardIdle
    /\ LoggerIdle
    /\ GestureInit(GestureConfig(UndefinedAction, UndefinedAction), FALSE)
    /\ ActionIdle
    /\ KeyIdle
    /\ ViewIdle

\* no more than MaxCycles fetch cycles are awaiting a response
InFlightBound == Len(cycles) <= MaxCycles

NextCard ==
    \/ \E u \in CardUserConfigs : SetConfig(u) /\ InFlightBound'
    \/ \E h \in HassObjects : SetHass(h) /\ InFlightBound'
    \/ \E force \in BOOLEAN : UpdateEvents(force) /\ InFlightBound'
    \/ \E c \in 1..MaxCycles, outcome \in ApiOutcomes, quotaOk \in BOOLEAN :
          ApiResponse(c, outcome, quotaOk)
    \/ CleanupCache
    \/ Tick
    \/ \E key \in StoredKeys \cup {ForeignKey},
          text \in {Text_garbage, Text_emptyObject} : OtherSetItem(key, text)

SpecCard == InitCard /\ [][NextCard]_vars

(* ---- the card and a host whose calendar entity changes its state, ---- *)
(* ---- within one cache duration and with localStorage left alone   ---- *)

\* hass objects that differ in the state token of calendar c.a
ChangingHassObjects ==
    {[states |-> [e \in {EntityA} |-> "on"]],
     [states |-> [e \in {EntityA} |-> "off"]]}

NextHass ==
    \/ \E u \in CardUserConfigs : SetConfig(u) /\ InFlightBound'
    \/ \E h \in ChangingHassObjects : SetHass(h) /\ InFlightBound'
    \/ \E force \in BOOLEAN : UpdateEvents(force) /\ InFlightBound'
    \/ \E c \in 1..MaxCycles, outcome \in ApiOutcomes, quotaOk \in BOOLEAN :
          ApiResponse(c, outcome, quotaOk)

SpecHass == InitCard /\ [][NextHass]_vars

(* ---- the card with update cycles that overlap, and with renders ---- *)
(* ---- that renderProgressively splits into chunks                 ---- *)

\* activations of updateEvents awaiting a response at one time, at most
MaxOverlap == 2
\* renders awaiting a timeout of renderProgressively at one time, at most
MaxRenders == 2

\* an all-day event on each of the CHUNK_SIZE + 1 days from day 0 on
ManyDays == [i \in 1..(CHUNK_SIZE + 1) |-> AllDay("d", i - 1)]

\* what a callApi promise settles with: a rejection, the event of day 1,
\* or events on more days than one chunk holds
OverlapOutcomes ==
    {[ok |-> FALSE],
     [ok |-> TRUE, events |-> <<AllDay("x", 1)>>],
     [ok |-> TRUE, events |-> ManyDays]}

\* the timeout of the oldest pending render runs: the timeouts have the
\* same delay, so they run in the order in which they were set.  It is
\* the continuation of an earlier operation: log stays as it is
RenderChunk ==
    /\ card.renders # <<>>
    /\ card' = renderChunk(card, 1)
    /\ UNCHANGED <<localStorage, cycles, clock, log, nonCardVars>>

OverlapBound ==
    /\ Len(cycles) <= MaxOverlap
    /\ Len(card.renders) <= MaxRenders

NextOverlap ==
    \/ SetConfig(ManyDaysConfig) /\ OverlapBound'
    \/ \E h \in HassObjects : SetHass(h) /\ OverlapBound'
    \/ \E force \in BOOLEAN : UpdateEvents(force) /\ OverlapBound'
    \/ \E c \in 1..MaxOverlap, outcome \in OverlapOutcomes :
          ApiResponse(c, outcome, TRUE) /\ OverlapBound'
    \/ RenderChunk

SpecOverlap == InitCard /\ [][NextOverlap]_vars

(* ---- the card with update cycles that overlap while the          ---- *)
(* ---- configuration changes and the day rolls over                ---- *)

\* the configurations of the host: one calendar, and days_to_show either
\* the default or CHUNK_SIZE + 1
SupersedeUserConfigs ==
    {u \in CardUserConfigs : Len(setConfig(u).entities) = 1}
        \cup {ManyDaysConfig}

\* what a callApi promise settles with: one of two different answers
SupersedeOutcomes ==
    {[ok |-> TRUE, events |-> <<AllDay("x", LastTick \div DayMs)>>],
     [ok |-> TRUE, events |-> <<AllDay("y", LastTick \div DayMs)>>]}

NextSupersede ==
    \/ \E u \in SupersedeUserConfigs :
          SetConfig(u) /\ Len(cycles') <= MaxOverlap
    \/ \E h \in HassObjects : SetHass(h) /\ Len(cycles') <= MaxOverlap
    \/ \E force \in BOOLEAN :
          UpdateEvents(force) /\ Len(cycles') <= MaxOverlap
    \/ \E c \in 1..MaxOverlap, outcome \in SupersedeOutcomes :
          ApiResponse(c, outcome, TRUE)
    \/ Tick

SpecSupersede == InitCard /\ [][NextSupersede]_vars

---------------------------------------------------------------------------
(* The days the card displays, as a function of the configuration, the   *)
(* time and the host's calendar: getTimeWindow, the host's answer to the  *)
(* query and groupEventsByDay.                                            *)

(* ---- inputs ---- *)

\* today is day 1; it is eight o'clock in the morning
Today == 1
Instants == {Today * DayMs + 8 * HourMs}

\* the events a calendar of the host may hold, in the order of its answer
HostEvents ==
    <<AllDay("today", Today),
      Timed("early", Today, 6),
      Timed("late", Today, 20),
      AllDay("tomorrow", Today + 1),
      AllDay("in two days", Today + 2),
      AllDay("in three days", Today + 3),
      Timed("in four days", Today + 4, 9)>>

\* a calendar holds no more events than this
MaxHostEvents == 3

ViewConfigs == [days_to_show : {1, 2, 3}, show_past_events : BOOLEAN]

InitView ==
    /\ viewIn \in [cfg : ViewConfigs, now : Instants,
                   held : {s \in SUBSET (1..Len(HostEvents)) :
                              Cardinality(s) <= MaxHostEvents}]
    /\ viewOut = Pending
    /\ GestureInit(GestureConfig(UndefinedAction, UndefinedAction), FALSE)
    /\ ActionIdle
    /\ KeyIdle
    /\ CardIdle
    /\ LoggerIdle

\* the calendar of the host: the held events in the order of HostEvents
HostCalendar(held) ==
    LET RECURSIVE From(_)
        From(i) == IF i > Len(HostEvents) THEN <<>>
                   ELSE (IF i \in held THEN <<HostEvents[i]>> ELSE <<>>)
                        \o From(i + 1)
    IN From(1)

\* fetchEvents() for one calendar, then groupEventsByDay() in renderCard
ShowEvents ==
    /\ viewOut = Pending
    /\ viewOut' =
          [window |-> getTimeWindow(viewIn.cfg, viewIn.now),
           days |-> groupEventsByDay(
                        callApi(HostCalendar(viewIn.held),
                                getTimeWindow(viewIn.cfg, viewIn.now)),
                        viewIn.cfg, viewIn.now)]
    /\ UNCHANGED <<viewIn, actionVars, keyVars, gestureVars, cardVars,
                   loggerVars>>

NextView == ShowEvents

SpecView == InitView /\ [][NextView]_vars

---------------------------------------------------------------------------
(* Properties of the gesture machine *)

\* the latest gesture, its hold timer, its ripple and its indicator
Latest == Len(gestures)

\* the latest gesture went from its pointerdown to its end with no event of
\* another pointer and no reset in between
Undisturbed == scn.owner # 0 /\ ~scn.intruded /\ ~scn.reset

\* no active pointer, hold flags false
StateIdle ==
    /\ state.activePointerId = None
    /\ ~state.holdTriggered
    /\ ~state.pendingHoldAction

\* the latest gesture has no indicator on screen that is not being removed
IndicatorGone ==
    /\ state.holdIndicator = None
    /\ indicators[Latest] # "shown"

\* the latest gesture's ripple is removed or its removal is scheduled
RippleGoing ==
    \/ Latest \notin container
    \/ rippleTimer[Latest] \in {"upDelay", "fade"}

\* C1: with a hold action configured, a gesture whose hold timer fired,
\* whose pointer never moved beyond the threshold and that ended with the
\* pointerup of its own pointer has dispatched the hold action exactly once
\* and no tap action.
C1_HoldGesture ==
    (/\ Undisturbed
     /\ scn.ended = "up"
     /\ scn.fired
     /\ scn.moved # "far"
     /\ Configured(config.hold_action))
    => scn.dispatched = <<"hold">>

C1_Witness ==
    /\ Undisturbed
    /\ scn.ended = "up"
    /\ scn.fired
    /\ scn.moved = "no"
    /\ Configured(config.hold_action)
    /\ Configured(config.tap_action)
    /\ scn.dispatched = <<"hold">>

\* C2: a gesture that ended with the pointerup of its own pointer before
\* its hold timer fired, with no movement beyond the threshold, has
\* dispatched the configured tap action exactly once and no hold action.
C2_TapGesture ==
    (/\ Undisturbed
     /\ scn.ended = "up"
     /\ ~scn.fired
     /\ scn.moved # "far"
     /\ Configured(config.tap_action))
    => scn.dispatched = <<"tap">>

C2_Witness ==
    /\ Undisturbed
    /\ scn.ended = "up"
    /\ ~scn.fired
    /\ scn.moved = "no"
    /\ Configured(config.tap_action)
    /\ Configured(config.hold_action)
    /\ scn.dispatched = <<"tap">>

\* C3: once the pointer of a gesture has moved more than MoveThreshold from
\* its origin before the hold timer fired, the hold timer is no longer
\* pending, and the pointerup that follows dispatches neither action; a
\* pointer that has moved MoveThreshold or less is not marked as moved and
\* leaves the hold timer pending.
C3_MovedGesture ==
    /\ (/\ scn.owner # 0 /\ ~scn.intruded
        /\ scn.moved = "far"
        /\ ~scn.fired)
       => /\ Latest \notin holdLive
          /\ ~scn.reset => gestures[Latest].hasMoved
          /\ scn.dispatched = <<>>
    /\ (ScnOpen /\ scn.moved # "far")
       => /\ ~gestures[Latest].hasMoved
          /\ (~scn.fired /\ ~scn.reset /\ Configured(config.hold_action))
             => Latest \in holdLive

C3_Witness ==
    /\ Undisturbed
    /\ scn.ended = "up"
    /\ scn.moved = "far"
    /\ ~scn.fired
    /\ Configured(config.tap_action)
    /\ Configured(config.hold_action)
    /\ scn.dispatched = <<>>

C5_SecondPointerIgnored ==
    [][(/\ ScnOpen
        /\ scn'.intruded \/ scn'.owner # scn.owner)
       => /\ state'.activePointerId = state.activePointerId
          /\ holdLive' = holdLive
          /\ gestures'[Latest].hasMoved = gestures[Latest].hasMoved
          /\ scn'.dispatched = <<>>]_vars

\* C6: after the pointercancel of the latest gesture's own pointer, whatever
\* the gesture had gone through, its hold timer is not pending, nothing has
\* been dispatched for it, no hold indicator is left, its ripple is out of
\* activeRipples and removed or being removed, and the state is idle.
C6_PointerCancel ==
    (/\ scn.owner # 0 /\ ~scn.intruded
     /\ scn.ended = "cancel")
    => /\ Latest \notin holdLive
       /\ state.holdTimer = None
       /\ scn.dispatched = <<>>
       /\ IndicatorGone
       /\ ~InArray(activeRipples, Latest)
       /\ Latest \notin container \/ rippleTimer[Latest] = "fade"
       /\ StateIdle

C6_Witness ==
    /\ Undisturbed
    /\ scn.ended = "cancel"
    /\ scn.fired
    /\ indicators[Latest] = "fading"
    /\ rippleTimer[Latest] = "fade"
    /\ StateIdle

\* C7: two consecutive taps (down, up, down, up with nothing but the
\* machine's own timers in between) have dispatched the tap action twice, and
\* after each of the two pointerups no hold timer is pending and no hold
\* indicator is shown.
C7_TwoTaps ==
    Configured(config.tap_action)
    => /\ row.stage = "u2" => row.taps = 2
       /\ row.stage \in {"u1", "u2"}
          => /\ holdLive = {}
             /\ \A i \in 1..Len(indicators) : indicators[i] # "shown"

\* C8: when an effect run by handleAction throws, for every type of action,
\* handleAction logs the error and returns; the pointerup that dispatched
\* the action has completed its cleanup: no active pointer, hold flags false,
\* no hold indicator, ripple removal scheduled.
C8_EffectThrows ==
    /\ \A a \in TypedActions :
          LET r == handleAction(a, TRUE, entityId, HostPrimitives)
          IN ~r.raised /\ r.effects = <<>> /\ InArray(r.logs, "error")
    /\ (/\ scn.owner # 0 /\ ~scn.intruded
        /\ scn.ended = "up"
        /\ scn.threw)
       => /\ ~scn.raised
          /\ StateIdle
          /\ IndicatorGone
          /\ RippleGoing

C8_Witness ==
    /\ Undisturbed
    /\ scn.ended = "up"
    /\ scn.threw
    /\ scn.dispatched = <<"tap">>
    /\ config.tap_action.action = "expand"
    /\ rippleTimer[Latest] = "upDelay"
    /\ StateIdle

---------------------------------------------------------------------------
(* Properties of handleAction *)

KnownTypes == {"more-info", "navigate", "call-service", "url", "expand"}

\* an optional string property is absent or empty
Missing(o) == ~o.has \/ Len(o.v) = 0

\* a string of the form domain.service: two parts around one dot
DomainService(o) == o.has /\ Count(o.v, ".") = 1

\* the descriptor of actIn is absent, untyped, 'none', of an unknown type,
\* lacks the field its type requires, or asks for a service with no hass
MalformedInput ==
    \/ actIn.actionConfig.kind = "undefined"
    \/ actIn.actionConfig.action \in {Undef, "", "none"}
    \/ actIn.actionConfig.action \notin KnownTypes
    \/ /\ actIn.actionConfig.action = "navigate"
       /\ Missing(actIn.actionConfig.navigation_path)
    \/ /\ actIn.actionConfig.action = "call-service"
       /\ ~DomainService(actIn.actionConfig.service) \/ ~actIn.hass
    \/ /\ actIn.actionConfig.action = "url"
       /\ Missing(actIn.actionConfig.url_path)

\* C9: handleAction produces no external effect when the descriptor is
\* absent, has no type, has type 'none' or an unknown type, lacks the field
\* its type requires (navigation_path, a domain.service string, url_path),
\* or asks for call-service with no hass object.
C9_MalformedNoEffect ==
    (actOut # Pending /\ MalformedInput) => actOut.effects = <<>>

C9_Witness ==
    /\ actOut # Pending
    /\ actIn.actionConfig.kind = "object"
    /\ actIn.actionConfig.action = "call-service"
    /\ actIn.actionConfig.service = Some(<<"a", ".", "b", ".", "c">>)
    /\ actIn.hass
    /\ actIn.throwing = {}
    /\ actOut.effects = <<>>
    /\ InArray(actOut.logs, "error")

---------------------------------------------------------------------------
(* Properties of the cache fingerprint *)

\* the two configurations, as setConfig leaves them, differ in the entities
\* list, in days_to_show or in show_past_events
ConfigsDiffer ==
    \/ setConfig(keyIn.a).entities # setConfig(keyIn.b).entities
    \/ setConfig(keyIn.a).days_to_show # setConfig(keyIn.b).days_to_show
    \/ setConfig(keyIn.a).show_past_events # setConfig(keyIn.b).show_past_events

\* C10: on one card instance and one day, two configurations that differ in
\* the entities list, in days_to_show or in show_past_events have different
\* getCacheKey values.
C10_DistinctFingerprints ==
    (keyOut # Pending /\ ConfigsDiffer) => keyOut.a # keyOut.b

\* C11: for one card instance and one configuration, the getCacheKey values
\* of two different calendar days differ.
C11_DailyRollover ==
    (keyOut # Pending /\ keyIn.today # keyIn.otherDay)
        => keyOut.a # keyOut.aOtherDay

\* the keys of two consecutive days have been computed
C11_Witness ==
    /\ keyOut # Pending
    /\ keyIn.today.date + 1 = keyIn.otherDay.date
    /\ keyIn.today.month = keyIn.otherDay.month
    /\ keyOut.a # keyOut.aOtherDay

---------------------------------------------------------------------------
(* Properties of the card *)

\* the item stored under the current cache key
CurrentItem == getItem(localStorage, CacheKey(card.config.v, clock))

\* the latest operation was a call of updateEvents that called
\* getCachedEvents
ReadCache == log.op = "update" /\ log.valid /\ ~log.force

InstancePrefix == Str_calendar_ \o CardInstanceId \o <<"_">>

\* an item that cacheEvents of this card wrote, and its age at time t
OwnEntry(item) ==
    StartsWith(item.key, InstancePrefix) /\ item.value.text = "entry"
Age(item, t) == t - item.value.timestamp

\* C13: after one run of cleanupCache no entry of this card that is older
\* than 24 hours is left in localStorage, and every entry of this card that
\* is at most 24 hours old is still there, unchanged.
C13_SweepRemovesOld ==
    log.op = "sweep" =>
        \A i \in 1..Len(log.before) :
            OwnEntry(log.before[i]) =>
                IF Age(log.before[i], clock) > DayMs
                THEN ~HasKey(localStorage, log.before[i].key)
                ELSE getItem(localStorage, log.before[i].key)
                         = log.before[i].value

\* C14: when the item under the current key is malformed or unparseable,
\* getCachedEvents returns null and the item is no longer in localStorage
\* afterwards.
C14_CorruptEntryRemoved ==
    (ReadCache /\ log.corrupt) =>
        /\ log.cached = None
        /\ ~HasKey(localStorage, CacheKey(card.config.v, clock))

\* the latest operation was the end of fetchEvents and what follows it in
\* updateEvents
Fetched == log.op = "fetched"

\* what the shadow root holds after a finished render of `events`
Shows(events) ==
    [view |-> "card",
     days |-> groupEventsByDay(events, card.config.v, clock)]

\* groupEventsByDay finds a day to display among `events`
HasDays(events) == Shows(events).days # <<>>

CacheRelevantChange(previous, current) ==
    \/ previous.entities # current.entities
    \/ previous.days_to_show # current.days_to_show
    \/ previous.show_past_events # current.show_past_events

\* C16: when setConfig changes entities, days_to_show or show_past_events,
\* today's and yesterday's cache entries of the previous configuration are
\* no longer in localStorage when setConfig returns.
C16_OldEntriesDeleted ==
    (/\ log.op = "setConfig"
     /\ log.previous.has
     /\ CacheRelevantChange(log.previous.v, card.config.v))
        => \A i \in 1..2 :
              ~HasKey(localStorage, getAllCacheKeys(log.previous.v, clock)[i])

RECURSIVE SucceededEvents(_, _)
\* the events of the sources whose query succeeded, in source order, each
\* tagged with its source
SucceededEvents(entities, outcomes) ==
    IF outcomes = <<>> THEN <<>>
    ELSE (IF Head(outcomes).ok
          THEN [i \in 1..Len(Head(outcomes).events) |->
                   [summary |-> Head(outcomes).events[i].summary,
                    start |-> Head(outcomes).events[i].start,
                    end |-> Head(outcomes).events[i].end,
                    entityConfig |-> Head(entities)]]
          ELSE <<>>)
         \o SucceededEvents(Tail(entities), Tail(outcomes))

\* C17: fetchEvents returns the concatenation, in source order, of the
\* tagged events of the sources whose query succeeded; a failing source
\* contributes nothing and does not stop the others.
C17_FetchIsolatesFailures ==
    Fetched =>
        /\ Len(log.outcomes) = Len(log.entities)
        /\ log.fetched = SucceededEvents(log.entities, log.outcomes)

\* the first of two sources failed and the second returned an event
C17_Witness ==
    /\ Fetched
    /\ Len(log.entities) = 2
    /\ ~log.outcomes[1].ok
    /\ log.outcomes[2].ok
    /\ Len(log.fetched) = 1
    /\ log.fetched[1].entityConfig = log.entities[2]

\* C18: when every source failed and the in-memory events are empty,
\* updateEvents issues the fallback query; when the fallback query fails
\* too, the card shows the error state.
C18_FallbackQuery ==
    /\ (Fetched /\ AllFailed(log.outcomes) /\ log.before = <<>>)
          => log.fallback
    /\ (log.op = "fallback" /\ ~log.ok) => card.shown.view = "error"

\* C19: when every source failed and the in-memory events are not empty,
\* the in-memory events after the cycle are the ones before it, and the
\* card shows them.
C19_StaleEventsKept ==
    (Fetched /\ AllFailed(log.outcomes) /\ log.before # <<>>)
        => /\ card.events = log.before
           /\ card.shown = Shows(log.before)

\* C20: the first non-forced updateEvents call after a fetch cycle in which
\* every query failed issues the calendar queries again.
C20_RetryAfterFailure ==
    (ReadCache /\ log.afterAllFailed) => log.queried


\* the item under the current key is one that cacheEvents wrote less than
\* the cache duration ago
ValidEntry ==
    /\ CurrentItem.text = "entry"
    /\ clock - CurrentItem.timestamp < cacheDuration(card.config.v)

TokenDiffers(cfg, previousHass, h) ==
    \E i \in 1..Len(cfg.entities) :
        StateOf(previousHass, cfg.entities[i].entity)
            # StateOf(h, cfg.entities[i].entity)

\* C22: when the hass setter is given an object in which the state token
\* of a configured calendar entity differs from the one in the object
\* assigned before, it calls updateEvents.
C22_ReactiveUpdate ==
    (log.op = "hass" /\ log.previous.has)
        => ~TokenDiffers(card.config.v, log.previous.v, card.hass.v)


\* C29: after updateEvents has adopted the events of a valid cache entry,
\* the loading flag is false and the shadow root shows those events, not
\* the loading message.
C29_ReadyAfterCacheHit ==
    (ReadCache /\ log.cached.has)
        => /\ ~card.isLoading
           /\ card.shown = Shows(log.cached.v)

\* no fetch is awaited and no render is pending
Quiescent == cycles = <<>> /\ card.renders = <<>>

\* C30: with overlapping update cycles, once every fetch and every render
\* has finished, the in-memory events and the displayed days are those of
\* the fetch that completed last (here: one that returned events to
\* display).
C30_LastCompletedFetchShown ==
    (/\ Quiescent
     /\ log.op = "fetched" /\ log.finished /\ log.overlapped
     /\ HasDays(log.fetched))
        => /\ card.events = log.fetched
           /\ card.shown = Shows(log.fetched)

\* the last answer of cycle c arrives: fetchEvents returns
LastAnswer(c) ==
    /\ c \in 1..Len(cycles)
    /\ cycles[c].awaiting = "fetchEvents"
    /\ cycles[c].idx = Len(cycles[c].entities)
    /\ Len(cycles') < Len(cycles)

\* cycle c was started before the configuration changed, and the cycle
\* that the change started has completed: c is the only one in flight
Superseded(c) ==
    /\ Len(cycles) = 1
    /\ cycles[c].config # card.config.v

\* C31: when a fetch completes that was started before a configuration
\* change, after the cycle started by the change has completed, its result
\* is discarded: the in-memory events and the cache stay as they are.
C31_SupersededDiscarded ==
    [][\A c \in 1..MaxOverlap :
          (LastAnswer(c) /\ Superseded(c))
              => /\ card'.events = card.events
                 /\ localStorage' = localStorage]_vars

\* the items that a step stored or replaced
Stored ==
    {localStorage'[i] : i \in 1..Len(localStorage')}
        \ {localStorage[i] : i \in 1..Len(localStorage)}

\* C35: the entry that a completing fetch stores is stored under the
\* fingerprint of the configuration and of the calendar day with which the
\* fetch was started.
C35_EntryMatchesFingerprint ==
    [][\A c \in 1..MaxOverlap :
          LastAnswer(c)
              => \A item \in Stored :
                    item.key = CacheKeys[cycles[c].config][cycles[c].day]]_vars

\* C39: while a fetch started by updateEvents awaits its answer, the
\* loading flag is true.
C39_LoadingWhileInFlight == cycles # <<>> => card.isLoading

---------------------------------------------------------------------------
(* Properties of the logger module *)

BannerCall == console.fn \in {"initializeLogger", "printVersionBanner"}

\* C32: over any sequence of initializeLogger and printVersionBanner
\* calls the banner is printed exactly once, by the first of them: a call
\* prints the banner if and only if it found BANNER_SHOWN false, and it
\* leaves BANNER_SHOWN true.
C32_BannerOnce ==
    /\ console.banners = IF logger.BANNER_SHOWN THEN 1 ELSE 0
    /\ BannerCall
          => /\ logger.BANNER_SHOWN
             /\ console.banners = 1
             /\ HasBanner(console.out) <=> ~console.shownBefore
             /\ console.shownBefore => console.out = <<>>

\* a later call found the banner shown and printed nothing
C32_Witness ==
    /\ BannerCall
    /\ console.shownBefore
    /\ console.out = <<>>
    /\ console.banners = 1

\* C33: error() always emits; warn(), info() and debug() emit if and only
\* if the current log level is at least WARN, INFO and DEBUG.
C33_LevelFiltering ==
    /\ console.fn = "error" => console.out # <<>>
    /\ console.fn = "warn"
          => (console.out # <<>>
                 <=> logger.CURRENT_LOG_LEVEL >= LogLevel.WARN)
    /\ console.fn = "info"
          => (console.out # <<>>
                 <=> logger.CURRENT_LOG_LEVEL >= LogLevel.INFO)
    /\ console.fn = "debug"
          => (console.out # <<>>
                 <=> logger.CURRENT_LOG_LEVEL >= LogLevel.DEBUG)

\* at level INFO, set by setLogLevel, debug() was called and was silent
C33_Witness ==
    /\ console.fn = "debug"
    /\ logger.CURRENT_LOG_LEVEL = LogLevel.INFO
    /\ console.out = <<>>

---------------------------------------------------------------------------
(* Further properties of the gesture machine *)

\* C24: a gesture whose pointer moved beyond the threshold only after its
\* hold timer had fired, and that ended with the pointerup of its own
\* pointer, has dispatched the hold action.  (A move beyond the threshold
\* before the timer fires clears the timer, so in an undisturbed gesture
\* fired and moved far means moved far after firing.)
C24_MoveAfterHold ==
    (/\ Undisturbed
     /\ scn.ended = "up"
     /\ scn.fired
     /\ scn.moved = "far"
     /\ Configured(config.hold_action))
    => scn.dispatched = <<"hold">>

\* what the hold timer callback of gesture g does to the machine: nothing
\* is dispatched, and beyond the timer itself only the two hold flags and
\* the indicator change; if the gesture's pointer is the active one, both
\* flags are set and the indicator is shown
TimerOnlyArms(g) ==
    /\ holdTimerCallback(Machine, g).dispatched = <<>>
    /\ [holdTimerCallback(Machine, g)
          EXCEPT !.holdLive = holdLive,
                 !.indicators = indicators,
                 !.state.holdTriggered = state.holdTriggered,
                 !.state.pendingHoldAction = state.pendingHoldAction,
                 !.state.holdIndicator = state.holdIndicator] = Machine
    /\ state.activePointerId = Some(gestures[g].pointerId)
          => /\ state'.holdTriggered
             /\ state'.pendingHoldAction
             /\ state'.holdIndicator = Some(g)
             /\ indicators'[g] = "shown"

\* a hold action was dispatched in this step, as far as scn records it
HoldDispatched ==
    Count(scn'.dispatched, "hold") > Count(scn.dispatched, "hold")

\* the pointermove, pointercancel and pointerdown handlers, run in the
\* current state, dispatch nothing
OtherHandlersSilent ==
    /\ \A pt \in MovePoints :
          RunMoveListeners(Machine, 1, pt[1], pt[2]).dispatched = <<>>
    /\ RunCancelListeners(Machine, 1).dispatched = <<>>
    /\ \A p \in Pointers, pt \in DownPoints :
          pointerDownHandler(Machine, p, pt[1], pt[2]).dispatched = <<>>

\* C25: the hold timer callback dispatches nothing, it only sets
\* holdTriggered and pendingHoldAction and shows the indicator; a step in
\* which the hold action is dispatched is a pointerup step, and no
\* pointerdown, pointermove or pointercancel handler dispatches anything.
C25_HoldArmedNotExecuted ==
    /\ [][/\ \A g \in holdLive : HoldTimerFire(g) => TimerOnlyArms(g)
          /\ HoldDispatched
                => \E p \in Pointers, throwing \in {{}, HostPrimitives} :
                      PointerUp(p, throwing)]_vars
    /\ []OtherHandlersSilent

\* the hold timer of the latest gesture has fired and its pointer is still
\* down: the hold is armed, the indicator is shown, nothing was dispatched
C25_Witness ==
    /\ Undisturbed
    /\ scn.ended = "no"
    /\ scn.fired
    /\ Configured(config.hold_action)
    /\ state.holdTriggered
    /\ state.pendingHoldAction
    /\ state.holdIndicator = Some(Latest)
    /\ indicators[Latest] = "shown"
    /\ scn.dispatched = <<>>

\* nothing has happened to the latest gesture since its pointerdown
JustDown == scn.owner # 0 /\ scn = ScnNew(scn.owner)

\* the pointerdown of the latest gesture captured the pointer id and
\* spawned a ripple
DownCaptured ==
    /\ state.activePointerId = Some(scn.owner)
    /\ gestures[Latest].pointerId = scn.owner
    /\ Latest \in container
    /\ InArray(activeRipples, Latest)

\* the hold timer of the latest gesture is pending
TimerStarted == Latest \in holdLive /\ state.holdTimer = Some(Latest)

C27_OneStateOneTimer ==
    /\ DOMAIN state = DOMAIN createFreshState
    /\ Cardinality(holdLive) <= 1
    /\ \A g \in holdLive : state.holdTimer = Some(g)

\* a second pointer went down while the first was still pressed and
\* unreleased: the only pending timer is the second gesture's
C27_Witness ==
    /\ Len(gestures) = 2
    /\ Cardinality(down) = 2
    /\ gestures[1].upL
    /\ ~gestures[1].hasMoved
    /\ indicators[1] = "absent"
    /\ holdLive = {2}
    /\ state.holdTimer = Some(2)

\* C28: when the timeout that navigationListener set has run, no hold
\* timer is pending, no hold indicator is shown, the ripple container is
\* empty and the state is a fresh one, whether or not the element is
\* connected.
C28_RebuildAfterNavigation ==
    [][(\E isConnected \in BOOLEAN : NavRebuild(isConnected))
          => /\ holdLive' = {}
             /\ state' = createFreshState
             /\ container' = {}
             /\ \A g \in 1..Len(indicators') : indicators'[g] # "shown"]_vars

---------------------------------------------------------------------------
(* Properties of the displayed days *)

\* the last of the days_to_show calendar days that begin with today
LastDay == (viewIn.now \div DayMs) + daysToShow(viewIn.cfg) - 1

\* C23: the query window covers today and the days_to_show - 1 days after
\* it, and every displayed event starts on one of those days.
C23_DaysToShow ==
    viewOut # Pending =>
        /\ viewOut.window.start <= StartOfDay(viewIn.now)
        /\ viewOut.window.end >= EndOfDay(LastDay * DayMs)
        /\ \A d \in 1..Len(viewOut.days) :
              \A i \in 1..Len(viewOut.days[d].events) :
                  eventDateKey(viewOut.days[d].events[i]) <= LastDay


\* the cleanup function returned by a setup that attached its handler has
\* run: only it removes navigationListener
CleanedUp == IsSetUp(config, hasContainer) /\ ~navListening

\* C34: after the cleanup function has run the element carries no
\* pointerdown handler of the setup (so no later pointerdown creates a
\* ripple or leads to a dispatched action), also when a navigation event
\* was received shortly before.
C34_CleanupIsFinal == CleanedUp => ~attached



\* gesture g has a listener at window
Listening(g) == gestures[g].moveL \/ gestures[g].upL \/ gestures[g].cancelL

\* C36: when every pointer that was pressed on the element has been
\* released or cancelled, every gesture has ended and none of its
\* pointermove, pointerup and pointercancel listeners is left at window.
C36_ListenersRemoved ==
    down = {} => \A g \in 1..Len(gestures) : ~Listening(g)


\* the pointer of gesture g has been released or cancelled: it is not
\* pressed, or a later gesture started with it
Released(g) ==
    /\ g \in 1..Len(gestures)
    /\ \/ gestures[g].pointerId \notin down
       \/ \E h \in (g + 1)..Len(gestures) :
             gestures[h].pointerId = gestures[g].pointerId

\* C37: a ripple whose pointer has been released or cancelled is removed
\* from the ripple container in the end.
C37_RippleRemoved ==
    \A g \in 1..MaxGestures :
        (Released(g) /\ g \in container) ~> (g \notin container)


\* the hold indicators that are children of document.body at full opacity
Shown == {i \in 1..Len(indicators) : indicators[i] = "shown"}

\* C38: at most one hold indicator is shown at a time, and an indicator
\* that is attached and not fading out is the one state.holdIndicator
\* refers to.
C38_NoOrphanIndicator ==
    /\ Cardinality(Shown) <= 1
    /\ \A i \in Shown : state.holdIndicator = Some(i)


\* what the up listeners dispatch for a pointerup event that arrives now
UpDispatches(throwing) == RunUpListeners(Machine, 1, throwing).dispatched

\* the gestures whose up listener is registered at window
UpListening == {g \in 1..Len(gestures) : gestures[g].upL}

\* C40: whatever listeners are registered, one pointerup event dispatches
\* at most one action: never two, and so never a tap and a hold together.
C40_OneActionPerPointerUp ==
    \A throwing \in {{}, HostPrimitives} :
        /\ Len(UpDispatches(throwing)) <= 1
        /\ ~(/\ InArray(UpDispatches(throwing), "tap")
             /\ InArray(UpDispatches(throwing), "hold"))

\* a pointerup of another pointer than the latest gesture's ran the up
\* listeners of two gestures and dispatched one action
C40_Witness ==
    /\ scn.intruded
    /\ Len(scn.dispatched) = 1
    /\ Len(gestures) >= 2

=============================================================================
